---- MODULE Spec2Model ----
(***************************************************************************)
(* Model of the Piper Command Center mode state machine.                   *)
(*                                                                         *)
(* The extended controller is src/demos/gamecontroller.py: one object,     *)
(* PiperCommandCenter, whose process() is called in an endless loop.  One  *)
(* call of process() is one tick.  A tick updates the debouncers, reads    *)
(* both axes, runs the state machine and then the handler of the state    *)
(* the machine is in after the transition.                                 *)
(*                                                                         *)
(* Time is the monotonic clock in milliseconds.  A tick is atomic: every   *)
(* clock read of one process() call returns the same value.  Debouncer     *)
(* values are electrical levels: TRUE is high, which is "not pressed"      *)
(* with the pull-up wiring.                                                *)
(***************************************************************************)
EXTENDS Integers, Sequences, FiniteSets, TLC

VARIABLES
    state,              \* self.state
    timer,              \* self.timer
    last_mouse,         \* self.last_mouse
    last_mouse_wheel,   \* self.last_mouse_wheel
    dotstar_led,        \* self.dotstar_led[0]
    up_pressed,         \* self.up_pressed    (latched UP_ARROW)
    down_pressed,       \* self.down_pressed  (latched DOWN_ARROW)
    left_pressed,       \* self.left_pressed  (latched LEFT_ARROW)
    right_pressed,      \* self.right_pressed (latched RIGHT_ARROW)
    mc_mode,            \* self.mc_mode
    mc_flyingdown_req,  \* self.mc_flyingdown_req
    mc_sprinting_req,   \* self.mc_sprinting_req
    mc_crouching_req,   \* self.mc_crouching_req
    mc_utility_req,     \* self.mc_utility_req
    value,              \* Debouncer.value of every button (TRUE = high)
    fell,               \* buttons whose Debouncer.fell is true this tick
    rose,               \* buttons whose Debouncer.rose is true this tick
    dx,                 \* x delta read this tick
    dy,                 \* y delta read this tick
    now,                \* time.monotonic() of the last tick, in ms
    keysDown,           \* HID keyboard sink: the keys that are down
    buttonsDown,        \* HID mouse sink: the mouse buttons that are down
    sent,               \* the HID calls made by the last tick, in order
    absent,             \* the auxiliary buttons constructed with pin None
    deadbandCutoff,     \* PiperJoystickAxis.deadbandCutoff, in tenths
    weight,             \* PiperJoystickAxis.weight, in tenths
    outputScale,        \* PiperJoystickAxis.outputScale
    pin_value,          \* the last AnalogIn value the x axis read, -1 if none
    pin_value_y,        \* the last AnalogIn value the y axis read, -1 if none
    raised,             \* an exception has escaped from process()
    deinited,           \* the owned resources that have been released
    reloaded,           \* supervisor.reload() has ended this run
    h_from,             \* history: the state the last tick started in
    h_entered,          \* history: clock of the tick that entered `state`,
                        \* kept while `state` is a waiting state, else 0
    h_fromEntered,      \* history: h_entered before the last tick
    h_hold,             \* history: the hold condition of `h_from` was true on
                        \* every tick spent in it, the last tick included
    h_moving,           \* history: some delta was nonzero on every tick so far
    h_moveAt,           \* history: clock of the last pointer move, -1 if none
    h_moveGap,          \* history: time between the last two pointer moves,
                        \* -1 if there were not yet two
    h_wheelAt,          \* history: clock of the last wheel move sent in the
                        \* mouse personality, -1 if none
    h_wheelGap          \* history: time between the last two of them, -1 if
                        \* there were not yet two

vars == <<state, timer, last_mouse, last_mouse_wheel, dotstar_led,
          up_pressed, down_pressed, left_pressed, right_pressed,
          mc_mode, mc_flyingdown_req, mc_sprinting_req, mc_crouching_req,
          mc_utility_req, value, fell, rose, dx, dy, now,
          keysDown, buttonsDown, sent, absent, raised, deinited, reloaded,
          outputScale, deadbandCutoff, weight, pin_value, pin_value_y,
          h_from, h_entered, h_fromEntered, h_hold, h_moving,
          h_moveAt, h_moveGap, h_wheelAt, h_wheelGap>>

(***************************************************************************)
(* States and Minecraft sub-modes, numbered as in the source.              *)
(***************************************************************************)
UNWIRED == 0
WAITING == 1
JOYSTICK == 2
JWAITING == 3
KEYBOARD == 4
KWAITING_TO_J == 5
KWAITING_TO_MC == 6
MINECRAFT == 7
MWAITING == 8

MC_DEFAULT == 0
MC_FLYINGDOWN == 1
MC_SPRINTING == 2
MC_CROUCHING == 3
MC_UTILITY == 4

\* Keycodes for the joystick button, indexed by sub-mode (1-based here).
MC_JOYSTICK_Z == <<"SPACE", "LEFT_SHIFT", "SPACE", "SPACE", "F5">>

\* Thresholds of the clock comparisons, in milliseconds.
WAITING_MS == 500
HOLD_MS == 1000
MOUSE_PACE_MS == 5
WHEEL_PACE_MS == 100

DpadButtons == {"left", "right", "up", "down"}
McButtons == {"top", "middle", "bottom"}
Buttons == {"z"} \cup DpadButtons \cup McButtons

ArrowKeys == {"UP_ARROW", "DOWN_ARROW", "LEFT_ARROW", "RIGHT_ARROW"}
KeyboardKeys == ArrowKeys \cup {"SPACE", "X", "Z", "C"}
MinecraftKeys == {"A", "CONTROL", "D", "E", "ESCAPE", "F5", "LEFT_SHIFT",
                  "Q", "S", "SPACE", "W"}
MouseButtons == {"LEFT_BUTTON", "MIDDLE_BUTTON", "RIGHT_BUTTON"}

(***************************************************************************)
(* The object and its collaborators as one record, so that the statements  *)
(* of process() compose in program order.                                  *)
(***************************************************************************)
Self ==
    [state |-> state, timer |-> timer, last_mouse |-> last_mouse,
     last_mouse_wheel |-> last_mouse_wheel, dotstar_led |-> dotstar_led,
     up_pressed |-> up_pressed, down_pressed |-> down_pressed,
     left_pressed |-> left_pressed, right_pressed |-> right_pressed,
     mc_mode |-> mc_mode, mc_flyingdown_req |-> mc_flyingdown_req,
     mc_sprinting_req |-> mc_sprinting_req,
     mc_crouching_req |-> mc_crouching_req,
     mc_utility_req |-> mc_utility_req,
     value |-> value, fell |-> fell, rose |-> rose,
     keysDown |-> keysDown, buttonsDown |-> buttonsDown, sent |-> <<>>,
     absent |-> absent, raised |-> raised,
     deinited |-> deinited, reloaded |-> reloaded]

(***************************************************************************)
(* HID sink.  Every call is logged in `sent`; press and release are        *)
(* idempotent on the set of keys (buttons) that are down.                  *)
(***************************************************************************)
Call(op, code, x, y, wheel) ==
    [op |-> op, code |-> code, x |-> x, y |-> y, wheel |-> wheel]

KeyboardPress(s, k) ==
    [s EXCEPT !.keysDown = @ \cup {k},
              !.sent = Append(@, Call("key_press", k, 0, 0, 0))]

KeyboardRelease(s, k) ==
    [s EXCEPT !.keysDown = @ \ {k},
              !.sent = Append(@, Call("key_release", k, 0, 0, 0))]

MousePress(s, b) ==
    [s EXCEPT !.buttonsDown = @ \cup {b},
              !.sent = Append(@, Call("mouse_press", b, 0, 0, 0))]

MouseRelease(s, b) ==
    [s EXCEPT !.buttonsDown = @ \ {b},
              !.sent = Append(@, Call("mouse_release", b, 0, 0, 0))]

MouseMove(s, x, y) ==
    [s EXCEPT !.sent = Append(@, Call("move", "NONE", x, y, 0))]

MouseWheel(s, w) ==
    [s EXCEPT !.sent = Append(@, Call("wheel", "NONE", 0, 0, w))]

(***************************************************************************)
(* PiperJoystickAxis.  The parameters deadbandCutoff and weight are kept   *)
(* in tenths (C and W below) and the arithmetic is exact: a number x is    *)
(* the pair <<p, q>> of a fraction p/q in lowest terms.  outputScale is    *)
(* the default 20.                                                         *)
(***************************************************************************)
OUTPUT_SCALE == 20
MID_SCALE == 32768
DEADBAND_CUTOFF == 1
WEIGHT == 2

Abs(n) == IF n < 0 THEN -n ELSE n

RECURSIVE GCD(_, _)
GCD(a, b) == IF b = 0 THEN a ELSE GCD(b, a % b)

\* int(a / b): truncation toward zero.
Trunc(a, b) ==
    LET n == IF b < 0 THEN -a ELSE a
        d == Abs(b)
    IN  IF n >= 0 THEN n \div d ELSE -((-n) \div d)

\* (self.pin.value / 2**15) - 1
Normalized(raw) ==
    LET n == raw - 32768
        g == GCD(32768, Abs(n))
    IN  <<n \div g, 32768 \div g>>

\* self.alpha = self._Cubic(self.deadbandCutoff), times 10^4:
\* (W/10) (C/10)^3 + (1 - W/10) (C/10).
AlphaE4(C, W) == W * C * C * C + (10 - W) * 100 * C

\* Mutant: the deadband is half as wide.
InDeadband_Half(x, C) == Abs(x[1]) * 20 < C * x[2]

\* abs(x) < self.deadbandCutoff
InDeadband(x, C) == Abs(x[1]) * 10 < C * x[2]

\* The division by (1.0 - self.alpha) raises ZeroDivisionError.
ReadRaises(raw, C, W) ==
    ~InDeadband(Normalized(raw), C) /\ AlphaE4(C, W) = 10000

(***************************************************************************)
(* Exact arithmetic beyond 32 bits, for numerators over 2^45.  A natural   *)
(* number is five limbs in base 2^15, the least significant first; the     *)
(* fifth limb takes what is left.                                          *)
(***************************************************************************)
LIMB == 32768

Norm(l) ==
    LET a1 == l[1]
        a2 == l[2] + a1 \div LIMB
        a3 == l[3] + a2 \div LIMB
        a4 == l[4] + a3 \div LIMB
        a5 == l[5] + a4 \div LIMB
    IN  <<a1 % LIMB, a2 % LIMB, a3 % LIMB, a4 % LIMB, a5>>

Big(m) == Norm(<<m, 0, 0, 0, 0>>)
Times(l, k) == Norm([i \in 1..5 |-> l[i] * k])
Plus(a, b) == Norm([i \in 1..5 |-> a[i] + b[i]])
\* l * 2^30
Shift2(l) == <<0, 0, l[1], l[2], l[3]>>

\* 10^4 * 2^45 * |_Cubic(x)| for x = n / 2^15 and m = |n|:
\* 1000 * (W m^3 + (10 - W) m 2^30).
CubicE4(m, W) ==
    Times(Plus(Times(Times(Times(Big(m), m), m), W),
               Shift2(Times(Big(m), 10 - W))), 1000)

\* Mutant: alpha is not subtracted at all.
Copysign1_Zero(n) == 0

\* Mutant: alpha is subtracted on both sides of the centre.
Copysign1_Positive(n) == 1

\* copysign(1, x): the zero that the subtraction yields is positive.
Copysign1(n) == IF n >= 0 THEN 1 ELSE -1

\* int(self._cubicScaledDeadband(x) * self.outputScale) with outputScale S.
\* With e = CubicE4 = eh 2^45 + el, the value times (10^4 - alpha) is
\* S (sgn(n) eh - copysign(1, x) alpha) + sgn(n) S el / 2^45; int()
\* truncates toward zero, and truncating before the last division gives
\* the same integer.
readJoystickAxis(raw, S, C, W) ==
    LET n == raw - 32768
        s1 == IF n >= 0 THEN 1 ELSE -1
        e == CubicE4(Abs(n), W)
        eh == e[4] + LIMB * e[5]
        f == Times(<<e[1], e[2], e[3], 0, 0>>, S)
        fh == f[4] + LIMB * f[5]
        whole == f[1] = 0 /\ f[2] = 0 /\ f[3] = 0
        j == S * (s1 * eh - Copysign1(n) * AlphaE4(C, W)) + s1 * fh
        r == IF whole THEN j
             ELSE IF s1 = 1 THEN (IF j >= 0 THEN j ELSE j + 1)
             ELSE (IF j <= 0 THEN j ELSE j - 1)
    IN  IF InDeadband(Normalized(raw), C) THEN 0
        ELSE Trunc(r, 10000 - AlphaE4(C, W))

(***************************************************************************)
(* Buttons: Debouncer.update() and the queries of PiperJoystickZ,          *)
(* PiperDpad and PiperMineCraftButtons.  An auxiliary button built with    *)
(* pin None has no Debouncer: update() skips it and its queries return     *)
(* False; lv[b] of such a button is a level that nothing reads.            *)
(***************************************************************************)
\* Mutant: update() also updates a debouncer for the absent buttons.
DebouncerUpdate_AllPins(s, lv) ==
    [s EXCEPT !.value = lv,
              !.fell = {b \in Buttons : s.value[b] /\ ~lv[b]},
              !.rose = {b \in Buttons : ~s.value[b] /\ lv[b]}]

DebouncerUpdate(s, lv) ==
    LET There == Buttons \ s.absent
    IN  [s EXCEPT !.value = [b \in Buttons |->
                                IF b \in There THEN lv[b] ELSE s.value[b]],
                  !.fell = {b \in There : s.value[b] /\ ~lv[b]},
                  !.rose = {b \in There : ~s.value[b] /\ lv[b]}]

Pressed(s, b) == b \notin s.absent /\ ~s.value[b]
PressedEvent(s, b) == b \notin s.absent /\ b \in s.fell
ReleasedEvent(s, b) == b \notin s.absent /\ b \in s.rose

zPressed(s) == Pressed(s, "z")
\* Mutant: an absent modifier counts as pressed.
bottomPressed_AbsentIsPressed(s) ==
    "bottom" \in s.absent \/ ~s.value["bottom"]

bottomPressed(s) == Pressed(s, "bottom")
AllDpadPressed(s) ==
    Pressed(s, "up") /\ Pressed(s, "down") /\ Pressed(s, "left")
        /\ Pressed(s, "right")

(***************************************************************************)
(* releaseJoystickHID, releaseKeyboardHID, releaseMinecraftHID: the        *)
(* releases in the order the source makes them.                            *)
(***************************************************************************)
RECURSIVE KeyboardReleaseSeq(_, _)
KeyboardReleaseSeq(s, ks) ==
    IF ks = <<>> THEN s
    ELSE KeyboardReleaseSeq(KeyboardRelease(s, Head(ks)), Tail(ks))

RECURSIVE MouseReleaseSeq(_, _)
MouseReleaseSeq(s, bs) ==
    IF bs = <<>> THEN s
    ELSE MouseReleaseSeq(MouseRelease(s, Head(bs)), Tail(bs))

releaseJoystickHID(s) ==
    MouseReleaseSeq(s, <<"LEFT_BUTTON", "RIGHT_BUTTON">>)

\* Mutant: SPACE is forgotten.
releaseKeyboardHID_NoSpace(s) ==
    KeyboardReleaseSeq(s, <<"UP_ARROW", "DOWN_ARROW", "LEFT_ARROW",
                            "RIGHT_ARROW", "X", "Z", "C">>)

releaseKeyboardHID(s) ==
    KeyboardReleaseSeq(s, <<"UP_ARROW", "DOWN_ARROW", "LEFT_ARROW",
                            "RIGHT_ARROW", "SPACE", "X", "Z", "C">>)

\* Mutant: CONTROL is forgotten.
releaseMinecraftHID_NoControl(s) ==
    KeyboardReleaseSeq(
        MouseReleaseSeq(s, <<"LEFT_BUTTON", "MIDDLE_BUTTON", "RIGHT_BUTTON">>),
        <<"A", "D", "E", "ESCAPE", "F5", "LEFT_SHIFT", "Q", "S",
          "SPACE", "W">>)

releaseMinecraftHID(s) ==
    KeyboardReleaseSeq(
        MouseReleaseSeq(s, <<"LEFT_BUTTON", "MIDDLE_BUTTON", "RIGHT_BUTTON">>),
        <<"A", "CONTROL", "D", "E", "ESCAPE", "F5", "LEFT_SHIFT", "Q", "S",
          "SPACE", "W">>)

(***************************************************************************)
(* The state machine of process(): one branch per state.  t is the clock,  *)
(* ddx and ddy the deltas read at the top of the tick.                     *)
(***************************************************************************)
\* (time.monotonic_ns() >> 23) % 256 with the clock in ms:
\* t * 10^6 / 2^23 = t * 15625 / 131072.
PulseRed(t) == <<((t * 15625) \div 131072) % 256, 0, 0>>

ClearLatches(s) ==
    [s EXCEPT !.up_pressed = FALSE, !.down_pressed = FALSE,
              !.left_pressed = FALSE, !.right_pressed = FALSE]

\* Mutant: the rest test joins the two axes with "or".
InUnwired_OneAxis(s, t, ddx, ddy) ==
    LET s1 == [s EXCEPT !.dotstar_led = PulseRed(t)]
    IN  IF ddx = 0 \/ ddy = 0
        THEN [s1 EXCEPT !.state = WAITING, !.timer = t]
        ELSE s1

InUnwired(s, t, ddx, ddy) ==
    LET s1 == [s EXCEPT !.dotstar_led = PulseRed(t)]
    IN  IF ddx = 0 /\ ddy = 0
        THEN [s1 EXCEPT !.state = WAITING, !.timer = t]
        ELSE s1

\* Mutant: the timeout is tested before the movement.
InWaiting_TimeoutFirst(s, t, ddx, ddy) ==
    LET s1 == [s EXCEPT !.dotstar_led = PulseRed(t)]
    IN  IF t - s1.timer > WAITING_MS
        THEN [s1 EXCEPT !.state = JOYSTICK]
        ELSE IF ddx # 0 \/ ddy # 0
             THEN [s1 EXCEPT !.state = UNWIRED]
             ELSE s1

\* Mutant: "at least 0.5 s" instead of "more than 0.5 s".
InWaiting_AtLeast(s, t, ddx, ddy) ==
    LET s1 == [s EXCEPT !.dotstar_led = PulseRed(t)]
    IN  IF ddx # 0 \/ ddy # 0
        THEN [s1 EXCEPT !.state = UNWIRED]
        ELSE IF t - s1.timer >= WAITING_MS
             THEN [s1 EXCEPT !.state = JOYSTICK]
             ELSE s1

InWaiting(s, t, ddx, ddy) ==
    LET s1 == [s EXCEPT !.dotstar_led = PulseRed(t)]
    IN  IF ddx # 0 \/ ddy # 0
        THEN [s1 EXCEPT !.state = UNWIRED]
        ELSE IF t - s1.timer > WAITING_MS
             THEN [s1 EXCEPT !.state = JOYSTICK]
             ELSE s1

\* Mutant: the indicator is left as it is in JOYSTICK.
InJoystick_NoColor(s, t) ==
    IF zPressed(s)
    THEN [s EXCEPT !.timer = t, !.state = JWAITING]
    ELSE s

InJoystick(s, t) ==
    LET s1 == [s EXCEPT !.dotstar_led = <<0, 255, 0>>]
    IN  IF zPressed(s1)
        THEN [s1 EXCEPT !.timer = t, !.state = JWAITING]
        ELSE s1

\* Mutant: the mouse buttons are not released on the way to KEYBOARD.
InJwaiting_NoRelease(s, t) ==
    IF ~zPressed(s)
    THEN [s EXCEPT !.state = JOYSTICK]
    ELSE IF t - s.timer > HOLD_MS
         THEN [s EXCEPT !.state = KEYBOARD]
         ELSE s

InJwaiting(s, t) ==
    IF ~zPressed(s)
    THEN [s EXCEPT !.state = JOYSTICK]
    ELSE IF t - s.timer > HOLD_MS
         THEN releaseJoystickHID([s EXCEPT !.state = KEYBOARD])
         ELSE s

\* Mutant: the indicator is left as it is in KEYBOARD.
InKeyboard_NoColor(s, t) ==
    IF zPressed(s) /\ ~bottomPressed(s)
    THEN [s EXCEPT !.timer = t, !.state = KWAITING_TO_J]
    ELSE IF zPressed(s) /\ bottomPressed(s)
         THEN [s EXCEPT !.timer = t, !.state = KWAITING_TO_MC]
         ELSE s

\* Mutant: the confirm states are entered on the press edge of the joystick
\* button.
InKeyboard_OnEdge(s, t) ==
    LET s1 == [s EXCEPT !.dotstar_led = <<0, 0, 255>>]
    IN  IF PressedEvent(s1, "z") /\ ~bottomPressed(s1)
        THEN [s1 EXCEPT !.timer = t, !.state = KWAITING_TO_J]
        ELSE IF PressedEvent(s1, "z") /\ bottomPressed(s1)
             THEN [s1 EXCEPT !.timer = t, !.state = KWAITING_TO_MC]
             ELSE s1

InKeyboard(s, t) ==
    LET s1 == [s EXCEPT !.dotstar_led = <<0, 0, 255>>]
    IN  IF zPressed(s1) /\ ~bottomPressed(s1)
        THEN [s1 EXCEPT !.timer = t, !.state = KWAITING_TO_J]
        ELSE IF zPressed(s1) /\ bottomPressed(s1)
             THEN [s1 EXCEPT !.timer = t, !.state = KWAITING_TO_MC]
             ELSE s1

\* Mutant: the timeout of KWAITING_TO_J sends the machine back to UNWIRED.
InKwaitingToJ_ToUnwired(s, t) ==
    IF ~zPressed(s) \/ bottomPressed(s)
    THEN ClearLatches([s EXCEPT !.state = KEYBOARD])
    ELSE IF t - s.timer > HOLD_MS
         THEN releaseKeyboardHID([s EXCEPT !.state = UNWIRED])
         ELSE s

InKwaitingToJ(s, t) ==
    IF ~zPressed(s) \/ bottomPressed(s)
    THEN ClearLatches([s EXCEPT !.state = KEYBOARD])
    ELSE IF t - s.timer > HOLD_MS
         THEN releaseKeyboardHID([s EXCEPT !.state = JOYSTICK])
         ELSE s

\* Mutant: the modifier is not tested while waiting for Minecraft mode.
InKwaitingToMc_NoModifier(s, t) ==
    IF ~zPressed(s)
    THEN ClearLatches([s EXCEPT !.state = KEYBOARD])
    ELSE IF t - s.timer > HOLD_MS
         THEN releaseKeyboardHID([s EXCEPT !.state = MINECRAFT])
         ELSE s

InKwaitingToMc(s, t) ==
    IF ~zPressed(s) \/ ~bottomPressed(s)
    THEN ClearLatches([s EXCEPT !.state = KEYBOARD])
    ELSE IF t - s.timer > HOLD_MS
         THEN releaseKeyboardHID([s EXCEPT !.state = MINECRAFT])
         ELSE s

McColor(m) ==
    CASE m = MC_DEFAULT    -> <<0, 255, 255>>
      [] m = MC_FLYINGDOWN -> <<255, 0, 255>>
      [] m = MC_SPRINTING  -> <<255, 128, 128>>
      [] m = MC_CROUCHING  -> <<255, 165, 0>>
      [] m = MC_UTILITY    -> <<255, 255, 0>>

InMinecraft(s, t) ==
    LET s1 == [s EXCEPT !.dotstar_led = McColor(s.mc_mode)]
    IN  IF zPressed(s1) /\ AllDpadPressed(s1)
        THEN [s1 EXCEPT !.timer = t, !.state = MWAITING]
        ELSE s1

\* Mutant: leaving Minecraft mode puts the sub-mode back to DEFAULT.
InMwaiting_ResetMode(s, t) ==
    IF ~zPressed(s) \/ ~AllDpadPressed(s)
    THEN [s EXCEPT !.state = MINECRAFT]
    ELSE IF t - s.timer > HOLD_MS
         THEN releaseMinecraftHID([s EXCEPT !.state = JOYSTICK,
                                            !.mc_mode = MC_DEFAULT])
         ELSE s

InMwaiting(s, t) ==
    IF ~zPressed(s) \/ ~AllDpadPressed(s)
    THEN [s EXCEPT !.state = MINECRAFT]
    ELSE IF t - s.timer > HOLD_MS
         THEN releaseMinecraftHID([s EXCEPT !.state = JOYSTICK])
         ELSE s

StateMachine(s, t, ddx, ddy) ==
    CASE s.state = UNWIRED        -> InUnwired(s, t, ddx, ddy)
      [] s.state = WAITING        -> InWaiting(s, t, ddx, ddy)
      [] s.state = JOYSTICK       -> InJoystick(s, t)
      [] s.state = JWAITING       -> InJwaiting(s, t)
      [] s.state = KEYBOARD       -> InKeyboard(s, t)
      [] s.state = KWAITING_TO_J  -> InKwaitingToJ(s, t)
      [] s.state = KWAITING_TO_MC -> InKwaitingToMc(s, t)
      [] s.state = MINECRAFT      -> InMinecraft(s, t)
      [] s.state = MWAITING       -> InMwaiting(s, t)

(***************************************************************************)
(* "if x.PressedEvent(): press(k) elif x.ReleasedEvent(): release(k)"      *)
(***************************************************************************)
KeyOnEdges(s, b, k) ==
    IF PressedEvent(s, b) THEN KeyboardPress(s, k)
    ELSE IF ReleasedEvent(s, b) THEN KeyboardRelease(s, k)
    ELSE s

ButtonOnEdges(s, b, m) ==
    IF PressedEvent(s, b) THEN MousePress(s, m)
    ELSE IF ReleasedEvent(s, b) THEN MouseRelease(s, m)
    ELSE s

(***************************************************************************)
(* Command Center Joystick Handling (state JOYSTICK or JWAITING).          *)
(***************************************************************************)
\* Mutant: DPad-down is tested before DPad-up.
Dwheel_DownFirst(s) ==
    IF Pressed(s, "down") THEN 1
    ELSE IF Pressed(s, "up") THEN -1
    ELSE 0

Dwheel(s) ==
    IF Pressed(s, "up") THEN -1
    ELSE IF Pressed(s, "down") THEN 1
    ELSE 0

\* Mutant: the pointer is paced by "at least 5 ms".
PacedMove_AtLeast(s, t, ddx, ddy) ==
    IF t - s.last_mouse >= MOUSE_PACE_MS
    THEN MouseMove([s EXCEPT !.last_mouse = t], ddx, ddy)
    ELSE s

PacedMove(s, t, ddx, ddy) ==
    IF t - s.last_mouse > MOUSE_PACE_MS
    THEN MouseMove([s EXCEPT !.last_mouse = t], ddx, ddy)
    ELSE s

PacedWheel(s, t, dwheel) ==
    IF t - s.last_mouse_wheel > WHEEL_PACE_MS
    THEN MouseWheel([s EXCEPT !.last_mouse_wheel = t], dwheel)
    ELSE s

JoystickHandling(s, t, ddx, ddy) ==
    LET s1 == PacedMove(s, t, ddx, ddy)
        s2 == PacedWheel(s1, t, Dwheel(s))
        s3 == ButtonOnEdges(s2, "left", "LEFT_BUTTON")
    IN  ButtonOnEdges(s3, "right", "RIGHT_BUTTON")

(***************************************************************************)
(* Command Center Keyboard Handling (state KEYBOARD, KWAITING_TO_J or      *)
(* KWAITING_TO_MC).                                                        *)
(***************************************************************************)
DpadKeys(s) ==
    LET s1 == KeyOnEdges(s, "up", "SPACE")
        s2 == KeyOnEdges(s1, "down", "X")
        s3 == KeyOnEdges(s2, "left", "Z")
    IN  KeyOnEdges(s3, "right", "C")

UnlatchLeft(s) ==
    IF s.left_pressed
    THEN KeyboardRelease([s EXCEPT !.left_pressed = FALSE], "LEFT_ARROW")
    ELSE s

UnlatchRight(s) ==
    IF s.right_pressed
    THEN KeyboardRelease([s EXCEPT !.right_pressed = FALSE], "RIGHT_ARROW")
    ELSE s

LatchLeft(s) ==
    IF ~s.left_pressed
    THEN KeyboardPress([s EXCEPT !.left_pressed = TRUE], "LEFT_ARROW")
    ELSE s

LatchRight(s) ==
    IF ~s.right_pressed
    THEN KeyboardPress([s EXCEPT !.right_pressed = TRUE], "RIGHT_ARROW")
    ELSE s

UnlatchUp(s) ==
    IF s.up_pressed
    THEN KeyboardRelease([s EXCEPT !.up_pressed = FALSE], "UP_ARROW")
    ELSE s

UnlatchDown(s) ==
    IF s.down_pressed
    THEN KeyboardRelease([s EXCEPT !.down_pressed = FALSE], "DOWN_ARROW")
    ELSE s

LatchUp(s) ==
    IF ~s.up_pressed
    THEN KeyboardPress([s EXCEPT !.up_pressed = TRUE], "UP_ARROW")
    ELSE s

LatchDown(s) ==
    IF ~s.down_pressed
    THEN KeyboardPress([s EXCEPT !.down_pressed = TRUE], "DOWN_ARROW")
    ELSE s

ArrowsX(s, ddx) ==
    IF ddx = 0 THEN UnlatchRight(UnlatchLeft(s))
    ELSE IF ddx > 0 THEN LatchRight(UnlatchLeft(s))
    ELSE UnlatchRight(LatchLeft(s))

\* Mutant: the y axis is not inverted.
ArrowsY_NotInverted(s, ddy) ==
    IF ddy = 0 THEN UnlatchDown(UnlatchUp(s))
    ELSE IF ddy > 0 THEN UnlatchDown(LatchUp(s))
    ELSE LatchDown(UnlatchUp(s))

ArrowsY(s, ddy) ==
    IF ddy = 0 THEN UnlatchDown(UnlatchUp(s))
    ELSE IF ddy < 0 THEN UnlatchDown(LatchUp(s))
    ELSE LatchDown(UnlatchUp(s))

KeyboardHandling(s, ddx, ddy) ==
    ArrowsY(ArrowsX(DpadKeys(s), ddx), ddy)

(***************************************************************************)
(* Command Center Minecraft Handling (state MINECRAFT only).               *)
(***************************************************************************)
SetRequest(s, fd, sp, cr, ut) ==
    [s EXCEPT !.mc_flyingdown_req = fd, !.mc_sprinting_req = sp,
              !.mc_crouching_req = cr, !.mc_utility_req = ut]

\* Mutant: a request sets its own flag and keeps the other three.
McRequests_NoClear(s) ==
    IF ~bottomPressed(s) THEN s
    ELSE IF PressedEvent(s, "z") THEN [s EXCEPT !.mc_flyingdown_req = TRUE]
    ELSE IF PressedEvent(s, "up") THEN [s EXCEPT !.mc_sprinting_req = TRUE]
    ELSE IF PressedEvent(s, "down") THEN [s EXCEPT !.mc_crouching_req = TRUE]
    ELSE IF PressedEvent(s, "left") THEN [s EXCEPT !.mc_utility_req = TRUE]
    ELSE s

McRequests(s) ==
    IF ~bottomPressed(s) THEN s
    ELSE IF PressedEvent(s, "z") THEN SetRequest(s, TRUE, FALSE, FALSE, FALSE)
    ELSE IF PressedEvent(s, "up") THEN SetRequest(s, FALSE, TRUE, FALSE, FALSE)
    ELSE IF PressedEvent(s, "down") THEN SetRequest(s, FALSE, FALSE, TRUE, FALSE)
    ELSE IF PressedEvent(s, "left") THEN SetRequest(s, FALSE, FALSE, FALSE, TRUE)
    ELSE s

\* Mutant: the commit of sprinting does not press CONTROL.
McCommit_NoControl(s) ==
    IF ~ReleasedEvent(s, "bottom") THEN s
    ELSE LET r == releaseMinecraftHID(s)
         IN  IF r.mc_flyingdown_req
             THEN [r EXCEPT !.mc_mode = MC_FLYINGDOWN,
                            !.mc_flyingdown_req = FALSE]
             ELSE IF r.mc_sprinting_req
             THEN [r EXCEPT !.mc_mode = MC_SPRINTING,
                            !.mc_sprinting_req = FALSE]
             ELSE IF r.mc_crouching_req
             THEN KeyboardPress([r EXCEPT !.mc_mode = MC_CROUCHING,
                                          !.mc_crouching_req = FALSE],
                                "LEFT_SHIFT")
             ELSE IF r.mc_utility_req
             THEN [r EXCEPT !.mc_mode = MC_UTILITY, !.mc_utility_req = FALSE]
             ELSE [r EXCEPT !.mc_mode = MC_DEFAULT]

McCommit(s) ==
    IF ~ReleasedEvent(s, "bottom") THEN s
    ELSE LET r == releaseMinecraftHID(s)
         IN  IF r.mc_flyingdown_req
             THEN [r EXCEPT !.mc_mode = MC_FLYINGDOWN,
                            !.mc_flyingdown_req = FALSE]
             ELSE IF r.mc_sprinting_req
             THEN KeyboardPress([r EXCEPT !.mc_mode = MC_SPRINTING,
                                          !.mc_sprinting_req = FALSE],
                                "CONTROL")
             ELSE IF r.mc_crouching_req
             THEN KeyboardPress([r EXCEPT !.mc_mode = MC_CROUCHING,
                                          !.mc_crouching_req = FALSE],
                                "LEFT_SHIFT")
             ELSE IF r.mc_utility_req
             THEN [r EXCEPT !.mc_mode = MC_UTILITY, !.mc_utility_req = FALSE]
             ELSE [r EXCEPT !.mc_mode = MC_DEFAULT]

McTopMiddle(s) ==
    IF s.mc_mode = MC_DEFAULT /\ bottomPressed(s)
    THEN ButtonOnEdges(KeyOnEdges(s, "top", "Q"), "middle", "MIDDLE_BUTTON")
    ELSE ButtonOnEdges(ButtonOnEdges(s, "top", "LEFT_BUTTON"),
                       "middle", "RIGHT_BUTTON")

McUtilityDpad(s) ==
    LET s1 == IF PressedEvent(s, "up") THEN MouseWheel(s, -1) ELSE s
        s2 == IF PressedEvent(s1, "down") THEN MouseWheel(s1, 1) ELSE s1
        s3 == KeyOnEdges(s2, "left", "E")
    IN  KeyOnEdges(s3, "right", "ESCAPE")

McMoveDpad(s) ==
    LET s1 == KeyOnEdges(s, "up", "W")
        s2 == KeyOnEdges(s1, "down", "S")
        s3 == KeyOnEdges(s2, "left", "A")
    IN  KeyOnEdges(s3, "right", "D")

\* Mutant: the keys are sent with the modifier pressed too.
McUnmodified_Always(s) ==
    LET s1 == KeyOnEdges(s, "z", MC_JOYSTICK_Z[s.mc_mode + 1])
    IN  IF s1.mc_mode = MC_UTILITY
        THEN McUtilityDpad(s1)
        ELSE McMoveDpad(s1)

\* Mutant: the joystick button sends the key of the DEFAULT sub-mode.
McUnmodified_DefaultKey(s) ==
    IF bottomPressed(s) THEN s
    ELSE LET s1 == KeyOnEdges(s, "z", MC_JOYSTICK_Z[MC_DEFAULT + 1])
         IN  IF s1.mc_mode = MC_UTILITY
             THEN McUtilityDpad(s1)
             ELSE McMoveDpad(s1)

McUnmodified(s) ==
    IF bottomPressed(s) THEN s
    ELSE LET s1 == KeyOnEdges(s, "z", MC_JOYSTICK_Z[s.mc_mode + 1])
         IN  IF s1.mc_mode = MC_UTILITY
             THEN McUtilityDpad(s1)
             ELSE McMoveDpad(s1)

MinecraftHandling(s, t, ddx, ddy) ==
    LET s1 == McCommit(McRequests(s))
        s2 == PacedMove(s1, t, ddx, ddy)
    IN  McUnmodified(McTopMiddle(s2))

(***************************************************************************)
(* process(): update the debouncers (lv are the debounced levels after the *)
(* update), run the state machine, then the handlers by the new state.     *)
(***************************************************************************)
\* Mutant: the joystick handler also runs in WAITING.
Process_MouseWhileWaiting(s, lv, t, ddx, ddy) ==
    LET s1 == StateMachine(DebouncerUpdate(s, lv), t, ddx, ddy)
        s2 == IF s1.state \in {WAITING, JOYSTICK, JWAITING}
              THEN JoystickHandling(s1, t, ddx, ddy)
              ELSE s1
        s3 == IF s2.state \in {KEYBOARD, KWAITING_TO_J, KWAITING_TO_MC}
              THEN KeyboardHandling(s2, ddx, ddy)
              ELSE s2
    IN  IF s3.state = MINECRAFT
        THEN MinecraftHandling(s3, t, ddx, ddy)
        ELSE s3

Process(s, lv, t, ddx, ddy) ==
    LET s1 == StateMachine(DebouncerUpdate(s, lv), t, ddx, ddy)
        s2 == IF s1.state \in {JOYSTICK, JWAITING}
              THEN JoystickHandling(s1, t, ddx, ddy)
              ELSE s1
        s3 == IF s2.state \in {KEYBOARD, KWAITING_TO_J, KWAITING_TO_MC}
              THEN KeyboardHandling(s2, ddx, ddy)
              ELSE s2
    IN  IF s3.state = MINECRAFT
        THEN MinecraftHandling(s3, t, ddx, ddy)
        ELSE s3

(***************************************************************************)
(* piper_command_center_modes.py: the same process(), with the button      *)
(* classes imported from the library piper_command_center.py.  The         *)
(* library's PiperMineCraftButtons.__init__ assigns the attributes         *)
(* mc_top, mc_middle and mc_bottom (and mc_*_pin for a pin that is given); *)
(* its update() and its queries read self.top, self.middle and             *)
(* self.bottom.  Reading an attribute that was never assigned raises       *)
(* AttributeError.                                                         *)
(***************************************************************************)
LibAttributes(A) ==
    {"mc_top", "mc_middle", "mc_bottom"}
        \cup {"mc_" \o b \o "_pin" : b \in McButtons \ A}

\* The attribute each method of the library class reads first.
LibReads ==
    [update |-> "top",
     topPressed |-> "top", topPressedEvent |-> "top",
     topReleasedEvent |-> "top",
     middlePressed |-> "middle", middlePressedEvent |-> "middle",
     middleReleasedEvent |-> "middle",
     bottomPressed |-> "bottom", bottomPressedEvent |-> "bottom",
     bottomReleasedEvent |-> "bottom"]

LibRaises(method, A) == LibReads[method] \notin LibAttributes(A)

\* joy_z.update(); dpad.update(); minecraftbuttons.update(); and, when the
\* last call returns, the rest of process() as in the demo.
ProcessModes(s, lv, t, ddx, ddy) ==
    IF LibRaises("update", s.absent)
    THEN LET s0 == DebouncerUpdate([s EXCEPT !.absent = McButtons], lv)
         IN  [s0 EXCEPT !.absent = s.absent, !.raised = TRUE]
    ELSE Process(s, lv, t, ddx, ddy)

(***************************************************************************)
(* code.py: the self-contained variant that hands the board over to        *)
(* usercode.py.  It has the states UNWIRED to JWAITING and a fifth state,  *)
(* USERCODE, numbered 4; it has no auxiliary buttons and no keyboard       *)
(* handling.  A pin or an AnalogIn that has been deinit()ed raises when it *)
(* is read.  supervisor.reload() does not return: it ends the run.         *)
(***************************************************************************)
USERCODE == 4

\* What the USERCODE branch releases, by the attribute that owns it.
Resources ==
    {"dotstar_led", "joystick_gnd", "x_axis", "y_axis", "dpad", "joy_z"}

\* What the top of process() reads on every tick.
ReadAtTop == {"joy_z", "dpad", "x_axis", "y_axis"}

\* Mutant: the mouse buttons are left as they are on the way to USERCODE.
InJwaitingHandoff_NoRelease(s, t) ==
    IF ~zPressed(s)
    THEN [s EXCEPT !.state = JOYSTICK]
    ELSE IF t - s.timer > HOLD_MS
         THEN [s EXCEPT !.state = USERCODE]
         ELSE s

InJwaitingHandoff(s, t) ==
    IF ~zPressed(s)
    THEN [s EXCEPT !.state = JOYSTICK]
    ELSE IF t - s.timer > HOLD_MS
         THEN [MouseReleaseSeq(s, <<"LEFT_BUTTON", "RIGHT_BUTTON">>)
                   EXCEPT !.state = USERCODE]
         ELSE s

\* The indicator is blanked, the six resources are released, usercode is
\* imported and returns (or is missing), and the run is reloaded.
InUsercode(s) ==
    [s EXCEPT !.dotstar_led = <<0, 0, 0>>,
              !.deinited = s.deinited \cup Resources,
              !.reloaded = TRUE]

StateMachineHandoff(s, t, ddx, ddy) ==
    CASE s.state = UNWIRED  -> InUnwired(s, t, ddx, ddy)
      [] s.state = WAITING  -> InWaiting(s, t, ddx, ddy)
      [] s.state = JOYSTICK -> InJoystick(s, t)
      [] s.state = JWAITING -> InJwaitingHandoff(s, t)
      [] s.state = USERCODE -> InUsercode(s)

ProcessHandoff(s, lv, t, ddx, ddy) ==
    IF s.deinited \cap ReadAtTop # {}
    THEN [s EXCEPT !.raised = TRUE]
    ELSE LET s1 == StateMachineHandoff(DebouncerUpdate(s, lv), t, ddx, ddy)
         IN  IF ~s1.reloaded /\ s1.state \in {JOYSTICK, JWAITING}
             THEN JoystickHandling(s1, t, ddx, ddy)
             ELSE s1

(***************************************************************************)
(* piper_command_center.py: the controller of the library.  It builds the  *)
(* three auxiliary buttons but process() never updates or queries them.    *)
(* Its states are numbered 0 to 7: a single KWAITING is 5, and its         *)
(* _MINECRAFT and _MWAITING are 6 and 7.  No handler runs in these last    *)
(* two states.  The command reader at the top of process() is not          *)
(* modelled: no serial input arrives.                                      *)
(***************************************************************************)
KWAITING == 5
BASIC_MINECRAFT == 6
BASIC_MWAITING == 7

InKeyboardBasic(s, t) ==
    LET s1 == [s EXCEPT !.dotstar_led = <<0, 0, 255>>]
    IN  IF zPressed(s1)
        THEN [s1 EXCEPT !.timer = t, !.state = KWAITING]
        ELSE s1

\* Mutant: the hold in KWAITING leads back to JOYSTICK.
InKwaiting_ToJoystick(s, t) ==
    IF ~zPressed(s)
    THEN ClearLatches([s EXCEPT !.state = KEYBOARD])
    ELSE IF t - s.timer > HOLD_MS
         THEN releaseKeyboardHID([s EXCEPT !.state = JOYSTICK])
         ELSE s

InKwaiting(s, t) ==
    IF ~zPressed(s)
    THEN ClearLatches([s EXCEPT !.state = KEYBOARD])
    ELSE IF t - s.timer > HOLD_MS
         THEN releaseKeyboardHID([s EXCEPT !.state = BASIC_MINECRAFT])
         ELSE s

InMinecraftBasic(s, t) ==
    LET s1 == [s EXCEPT !.dotstar_led = <<0, 255, 255>>]
    IN  IF zPressed(s1)
        THEN [s1 EXCEPT !.timer = t, !.state = BASIC_MWAITING]
        ELSE s1

\* Mutant: the hold in _MWAITING is over at 1.0 s sharp.
InMwaitingBasic_AtLeast(s, t) ==
    IF ~zPressed(s)
    THEN [s EXCEPT !.state = BASIC_MINECRAFT]
    ELSE IF t - s.timer >= HOLD_MS
         THEN [s EXCEPT !.state = JOYSTICK]
         ELSE s

InMwaitingBasic(s, t) ==
    IF ~zPressed(s)
    THEN [s EXCEPT !.state = BASIC_MINECRAFT]
    ELSE IF t - s.timer > HOLD_MS
         THEN [s EXCEPT !.state = JOYSTICK]
         ELSE s

StateMachineBasic(s, t, ddx, ddy) ==
    CASE s.state = UNWIRED         -> InUnwired(s, t, ddx, ddy)
      [] s.state = WAITING         -> InWaiting(s, t, ddx, ddy)
      [] s.state = JOYSTICK        -> InJoystick(s, t)
      [] s.state = JWAITING        -> InJwaiting(s, t)
      [] s.state = KEYBOARD        -> InKeyboardBasic(s, t)
      [] s.state = KWAITING        -> InKwaiting(s, t)
      [] s.state = BASIC_MINECRAFT -> InMinecraftBasic(s, t)
      [] s.state = BASIC_MWAITING  -> InMwaitingBasic(s, t)

\* joy_z.update() and dpad.update() only: the auxiliary debouncers keep
\* the values they were built with.
ProcessBasic(s, lv, t, ddx, ddy) ==
    LET s0 == DebouncerUpdate([s EXCEPT !.absent = McButtons], lv)
        s1 == StateMachineBasic([s0 EXCEPT !.absent = s.absent], t, ddx, ddy)
        s2 == IF s1.state \in {JOYSTICK, JWAITING}
              THEN JoystickHandling(s1, t, ddx, ddy)
              ELSE s1
    IN  IF s2.state \in {KEYBOARD, KWAITING}
        THEN KeyboardHandling(s2, ddx, ddy)
        ELSE s2

(***************************************************************************)
(* History variables.  The hold condition of a state is what keeps the     *)
(* machine waiting in it; it is stated here independently of the code.     *)
(***************************************************************************)
WaitingStates ==
    {WAITING, JWAITING, KWAITING_TO_J, KWAITING_TO_MC, MWAITING}

HoldCondition(st, lv, ddx, ddy) ==
    CASE st = WAITING        -> ddx = 0 /\ ddy = 0
      [] st = JWAITING       -> ~lv["z"]
      [] st = KWAITING_TO_J  -> ~lv["z"] /\ lv["bottom"]
      [] st = KWAITING_TO_MC -> ~lv["z"] /\ ~lv["bottom"]
      [] st = MWAITING       -> ~lv["z"] /\ \A b \in DpadButtons : ~lv[b]
      [] OTHER               -> TRUE

\* Some call of operation op is among the HID calls q.
Sends(q, op) == \E i \in DOMAIN q : q[i].op = op

(***************************************************************************)
(* The state after construction (__init__): the three timestamps are read  *)
(* at construction, no button is pressed, nothing has been sent.           *)
(***************************************************************************)
InitScaled(A, S, C, W) ==
    /\ absent = A
    /\ outputScale = S
    /\ deadbandCutoff = C
    /\ weight = W
    /\ pin_value = -1
    /\ pin_value_y = -1
    /\ raised = FALSE
    /\ deinited = {}
    /\ reloaded = FALSE
    /\ state = UNWIRED
    /\ now = 0
    /\ timer = 0
    /\ last_mouse = 0
    /\ last_mouse_wheel = 0
    /\ dotstar_led = <<0, 0, 0>>
    /\ up_pressed = FALSE
    /\ down_pressed = FALSE
    /\ left_pressed = FALSE
    /\ right_pressed = FALSE
    /\ mc_mode = MC_DEFAULT
    /\ mc_flyingdown_req = FALSE
    /\ mc_sprinting_req = FALSE
    /\ mc_crouching_req = FALSE
    /\ mc_utility_req = FALSE
    /\ value = [b \in Buttons |-> TRUE]
    /\ fell = {}
    /\ rose = {}
    /\ dx = 0
    /\ dy = 0
    /\ keysDown = {}
    /\ buttonsDown = {}
    /\ sent = <<>>
    /\ h_from = UNWIRED
    /\ h_entered = 0
    /\ h_fromEntered = 0
    /\ h_hold = TRUE
    /\ h_moving = TRUE
    /\ h_moveAt = -1
    /\ h_moveGap = -1
    /\ h_wheelAt = -1
    /\ h_wheelGap = -1

\* A construction with the default outputScale.
InitObject(A, C, W) == InitScaled(A, OUTPUT_SCALE, C, W)

\* The construction with the default axis parameters.
InitWith(A) == InitObject(A, DEADBAND_CUTOFF, WEIGHT)

\* The default construction: every pin is given.
Init == InitWith({})

\* A construction with other axis parameters.
InitAxis ==
    \E S \in {1, OUTPUT_SCALE, 127}, C \in {0, 1, 5, 9, 10, 11},
       W \in {0, 2, 5, 10} :
        InitScaled({}, S, C, W)

\* A construction with any of the three auxiliary pins None.
InitPins == \E A \in SUBSET McButtons : InitWith(A)

\* The construction in code.py, which has no auxiliary buttons at all.
InitHandoff == InitWith(McButtons)

(***************************************************************************)
(* One iteration of "while True: pcc.process()" at clock t, with the       *)
(* debounced levels lv and the deltas ddx, ddy.  Outcome stores the object *)
(* s that process() leaves and updates the history; the loop ends when an  *)
(* exception escapes from process() or the run is reloaded.  OutcomeRead   *)
(* also records the raw values rawx and rawy that the axes read.           *)
(***************************************************************************)
OutcomeRead(s, lv, t, ddx, ddy, rawx, rawy) ==
    \E held \in {HoldCondition(state, lv, ddx, ddy)},
       moved \in {Sends(s.sent, "move")},
       wheeled \in {s.state \in {JOYSTICK, JWAITING}
                       /\ Sends(s.sent, "wheel")} :
        /\ ~raised
        /\ ~reloaded
        /\ state' = s.state
        /\ timer' = s.timer
        /\ last_mouse' = s.last_mouse
        /\ last_mouse_wheel' = s.last_mouse_wheel
        /\ dotstar_led' = s.dotstar_led
        /\ up_pressed' = s.up_pressed
        /\ down_pressed' = s.down_pressed
        /\ left_pressed' = s.left_pressed
        /\ right_pressed' = s.right_pressed
        /\ mc_mode' = s.mc_mode
        /\ mc_flyingdown_req' = s.mc_flyingdown_req
        /\ mc_sprinting_req' = s.mc_sprinting_req
        /\ mc_crouching_req' = s.mc_crouching_req
        /\ mc_utility_req' = s.mc_utility_req
        /\ value' = s.value
        /\ fell' = s.fell
        /\ rose' = s.rose
        /\ dx' = ddx
        /\ dy' = ddy
        /\ now' = t
        /\ keysDown' = s.keysDown
        /\ buttonsDown' = s.buttonsDown
        /\ sent' = s.sent
        /\ absent' = s.absent
        /\ UNCHANGED <<outputScale, deadbandCutoff, weight>>
        /\ pin_value' = rawx
        /\ pin_value_y' = rawy
        /\ raised' = s.raised
        /\ deinited' = s.deinited
        /\ reloaded' = s.reloaded
        /\ h_from' = state
        /\ h_fromEntered' = h_entered
        /\ h_entered' = IF s.state = state THEN h_entered
                        ELSE IF s.state \in WaitingStates THEN t
                        ELSE 0
        /\ h_hold' = IF h_from = state THEN h_hold /\ held ELSE held
        /\ h_moving' = (h_moving /\ (ddx # 0 \/ ddy # 0))
        /\ h_moveAt' = IF moved THEN t ELSE h_moveAt
        /\ h_moveGap' = IF moved /\ h_moveAt >= 0 THEN t - h_moveAt
                        ELSE h_moveGap
        /\ h_wheelAt' = IF wheeled THEN t ELSE h_wheelAt
        /\ h_wheelGap' = IF wheeled /\ h_wheelAt >= 0 THEN t - h_wheelAt
                         ELSE h_wheelGap

\* A tick whose deltas are given: the raw values are left out.
Outcome(s, lv, t, ddx, ddy) ==
    OutcomeRead(s, lv, t, ddx, ddy, pin_value, pin_value_y)

Loop(lv, t, ddx, ddy) ==
    \E s \in {Process(Self, lv, t, ddx, ddy)} : Outcome(s, lv, t, ddx, ddy)

(***************************************************************************)
(* Inputs of a tick.  LevelsOf(P) are the debounced levels with exactly    *)
(* the buttons of P pressed (low).  Tick draws the clock step from St, the *)
(* set of pressed buttons from Ps and the deltas from DX and DY.           *)
(***************************************************************************)
LevelsOf(P) == [b \in Buttons |-> b \notin P]

\* The clock advances by one of these amounts (ms) between two ticks: 0 is a
\* tick at the same instant, and multiples of 250 reach both 500 and 1000
\* exactly, so that "more than" is told apart from "at least".
Steps == {0, 250}

Tick(St, Ps, DX, DY) ==
    \E step \in St, P \in Ps, ddx \in DX, ddy \in DY :
        Loop(LevelsOf(P), now + step, ddx, ddy)

Armed == state \notin {UNWIRED, WAITING}

(***************************************************************************)
(* SpecArm: arming.  Until the machine is armed every delta and the        *)
(* joystick button and DPad-left vary freely; once armed the run goes on   *)
(* with the joystick button and the x axis.                                *)
(***************************************************************************)
MaxTimeArm == 1500

TickArm ==
    /\ now < MaxTimeArm
    /\ IF ~Armed
       THEN Tick(Steps, SUBSET {"z", "left"}, {-1, 0, 1}, {-1, 0, 1})
       ELSE Tick(Steps, SUBSET {"z"}, {0, 1}, {0})

SpecArm == Init /\ [][TickArm]_vars

(***************************************************************************)
(* SpecMouse: the stick at rest; once armed the joystick button and        *)
(* DPad-left and DPad-right vary freely.                                   *)
(***************************************************************************)
MaxTimeMouse == 2500

TickMouse ==
    /\ now < MaxTimeMouse
    /\ IF ~Armed
       THEN Tick(Steps, {{}}, {0}, {0})
       ELSE Tick(Steps, SUBSET {"z", "left", "right"}, {0}, {0})

SpecMouse == Init /\ [][TickMouse]_vars

(***************************************************************************)
(* SpecKbd: the stick at rest and the joystick button held from arming     *)
(* until keyboard mode is reached; in the keyboard family the joystick     *)
(* button, the modifier, DPad-up and both axes vary freely.  Ticks are     *)
(* 250 ms apart.                                                           *)
(***************************************************************************)
MaxTimeKbd == 4000

TickKbd ==
    /\ now < MaxTimeKbd
    /\ CASE ~Armed ->
              Tick({250}, {{}}, {0}, {0})
         [] state \in {JOYSTICK, JWAITING} ->
              Tick({250}, {{"z"}}, {0}, {0})
         [] state \in {KEYBOARD, KWAITING_TO_J, KWAITING_TO_MC} ->
              Tick({250}, SUBSET {"z", "bottom", "up"}, {-1, 0, 1}, {0, 1})
         [] state \in {MINECRAFT, MWAITING} ->
              Tick({250}, SUBSET {"z", "bottom"}, {0}, {0})

SpecKbd == Init /\ [][TickKbd]_vars

(***************************************************************************)
(* SpecModes: the tour of the personalities with the stick at rest.  The   *)
(* joystick button varies freely everywhere, the modifier in the keyboard  *)
(* family, and in Minecraft mode the DPad is released, fully pressed or    *)
(* pressed but for DPad-left.  Ticks are 250 ms apart.                     *)
(***************************************************************************)
MaxTimeModes == 5750

DpadHolds == {{}, DpadButtons, DpadButtons \ {"left"}}

TickModes ==
    /\ now < MaxTimeModes
    /\ CASE ~Armed ->
              Tick({250}, {{}}, {0}, {0})
         [] state \in {JOYSTICK, JWAITING} ->
              Tick({250}, SUBSET {"z"}, {0}, {0})
         [] state \in {KEYBOARD, KWAITING_TO_J, KWAITING_TO_MC} ->
              Tick({250}, SUBSET {"z", "bottom"}, {0}, {0})
         [] state \in {MINECRAFT, MWAITING} ->
              Tick({250}, {Z \cup D : Z \in SUBSET {"z"}, D \in DpadHolds},
                   {0}, {0})

SpecModes == Init /\ [][TickModes]_vars

(***************************************************************************)
(* SpecAux: the stick at rest; the joystick button is held from arming and *)
(* the modifier from keyboard mode on until Minecraft mode is reached.     *)
(* The ticks in MINECRAFT come at one instant (the loop is far faster than *)
(* the clock) with the buttons in one of the AuxPresses combinations: the  *)
(* modifier alone, with each request button or with the top button; the    *)
(* top, middle and joystick buttons, DPad-up and DPad-left alone; and the  *)
(* exit chord with and without the top button.  In MWAITING the chord is   *)
(* kept, with the top button and the modifier free, and the ticks are      *)
(* 250 ms apart.                                                           *)
(***************************************************************************)
MaxTimeAux == 5250

ExitChord == DpadButtons \cup {"z"}

AuxPresses ==
    {{}, {"bottom"}, {"bottom", "z"}, {"bottom", "up"}, {"bottom", "down"},
     {"bottom", "left"}, {"bottom", "top"}, {"top"}, {"middle"}, {"z"},
     {"up"}, {"left"}, ExitChord, ExitChord \cup {"top"}}

TickAux ==
    /\ now < MaxTimeAux
    /\ CASE ~Armed ->
              Tick({250}, {{}}, {0}, {0})
         [] state \in {JOYSTICK, JWAITING} ->
              Tick({250}, {{"z"}}, {0}, {0})
         [] state \in {KEYBOARD, KWAITING_TO_J, KWAITING_TO_MC} ->
              Tick({250}, {{"z", "bottom"}}, {0}, {0})
         [] state = MINECRAFT ->
              Tick({0}, AuxPresses, {0}, {0})
         [] state = MWAITING ->
              Tick({250},
                   {ExitChord \cup B : B \in SUBSET {"top", "bottom"}},
                   {0}, {0})

SpecAux == Init /\ [][TickAux]_vars

(***************************************************************************)
(* SpecReq: the sub-mode requests.  The run reaches Minecraft mode as in   *)
(* SpecAux; there the ticks come at one instant and the modifier, the      *)
(* joystick button, DPad-up and DPad-down vary freely, and DPad-left is    *)
(* pressed alone, with the modifier, and with the modifier and DPad-down,  *)
(* so that several request edges fall on one tick.  DPad-right stays       *)
(* released, so the exit chord is never complete.                          *)
(***************************************************************************)
MaxTimeReq == 4250

ReqPresses ==
    SUBSET {"bottom", "z", "up", "down"}
        \cup {{"left"}, {"bottom", "left"}, {"bottom", "down", "left"}}

TickReq ==
    /\ now < MaxTimeReq
    /\ CASE ~Armed ->
              Tick({250}, {{}}, {0}, {0})
         [] state \in {JOYSTICK, JWAITING} ->
              Tick({250}, {{"z"}}, {0}, {0})
         [] state \in {KEYBOARD, KWAITING_TO_J, KWAITING_TO_MC} ->
              Tick({250}, {{"z", "bottom"}}, {0}, {0})
         [] state = MINECRAFT ->
              Tick({0}, ReqPresses, {0}, {0})

SpecReq == Init /\ [][TickReq]_vars

(***************************************************************************)
(* SpecPace: the pacing of the pointer and of the wheel.  The machine is   *)
(* armed at clock 1000 and the joystick button is held from then on, so   *)
(* that the first tick of mouse mode ends in JOYSTICK and the later ones   *)
(* in JWAITING.  Until MaxFastMouse the ticks of mouse mode are 0, 1 or    *)
(* 4 ms apart, with the x axis free; the next tick comes at the next       *)
(* multiple of 250 ms, and from there the run goes to Minecraft mode as in *)
(* SpecAux.  In MINECRAFT the ticks are 0, 1 or 4 ms apart, with the       *)
(* modifier and the x axis free.                                           *)
(***************************************************************************)
MaxFastMouse == 1102
MaxTimePace == 3758

TickPace ==
    /\ now < MaxTimePace
    /\ CASE ~Armed ->
              Tick({250}, {{}}, {0}, {0})
         [] state \in {JOYSTICK, JWAITING} /\ now < MaxFastMouse ->
              Tick({0, 1, 4}, {{"z"}}, {0, 1}, {0})
         [] state \in {JOYSTICK, JWAITING} /\ now >= MaxFastMouse ->
              Tick({250 - (now % 250)}, {{"z"}}, {0}, {0})
         [] state \in {KEYBOARD, KWAITING_TO_J, KWAITING_TO_MC} ->
              Tick({250}, {{"z", "bottom"}}, {0}, {0})
         [] state = MINECRAFT ->
              Tick({0, 1, 4}, SUBSET {"bottom"}, {0, 1}, {0})

SpecPace == Init /\ [][TickPace]_vars

(***************************************************************************)
(* SpecPins: the controller built with any of the three auxiliary pins     *)
(* None.  The stick is at rest and the joystick button is held from arming *)
(* until keyboard mode; in the keyboard family the joystick button and the *)
(* level of the modifier input vary freely, 250 ms apart; in MINECRAFT the *)
(* ticks come at one instant with the levels of the three auxiliary inputs *)
(* in one of the PinPresses combinations.  The levels are drawn for the    *)
(* absent buttons too.                                                     *)
(***************************************************************************)
MaxTimePins == 4250

PinPresses ==
    {{}, {"bottom"}, {"top"}, {"middle"}, {"bottom", "top"},
     {"bottom", "middle"}}

TickPins ==
    /\ now < MaxTimePins
    /\ CASE ~Armed ->
              Tick({250}, {{}}, {0}, {0})
         [] state \in {JOYSTICK, JWAITING} ->
              Tick({250}, {{"z"}}, {0}, {0})
         [] state \in {KEYBOARD, KWAITING_TO_J, KWAITING_TO_MC} ->
              Tick({250}, SUBSET {"z", "bottom"}, {0}, {0})
         [] state = MINECRAFT ->
              Tick({0}, PinPresses, {0}, {0})

SpecPins == InitPins /\ [][TickPins]_vars

(***************************************************************************)
(* SpecLib: piper_command_center_modes.py built with any of the three      *)
(* auxiliary pins None; the joystick button and the DPad vary freely and   *)
(* the stick is at rest.                                                   *)
(***************************************************************************)
MaxTimeLib == 500

TickLib ==
    /\ now < MaxTimeLib
    /\ \E step \in Steps, P \in SUBSET ({"z"} \cup DpadButtons) :
          \E s \in {ProcessModes(Self, LevelsOf(P), now + step, 0, 0)} :
              Outcome(s, LevelsOf(P), now + step, 0, 0)

SpecLib == InitPins /\ [][TickLib]_vars

(***************************************************************************)
(* SpecAxis: two axis channels built with an outputScale of 1, 20 or 127,  *)
(* a deadbandCutoff of 0, 0.1, 0.5, 0.9, 1 or 1.1 and a weight of 0, 0.2,  *)
(* 0.5 or 1, and read in a loop as in the usage of piper_joystick.py.  The *)
(* samples of the x axis are the multiples of 2048, the ends of the range, *)
(* the neighbours of the centre and the samples on both sides of the       *)
(* default deadband's edges; the y axis reads the same sample, its mirror  *)
(* image about the centre or the next sample.                              *)
(***************************************************************************)
RAW_MAX == 65535

RawSamples ==
    {2048 * k : k \in 0..31}
        \cup {1, 29491, 29492, 32767, 32769, 36044, 36045, 65534, RAW_MAX}

Companions(raw) == {raw, 2 * MID_SCALE - raw, raw + 1} \cap (0..RAW_MAX)

\* "dx = x_axis.readJoystickAxis(); dy = y_axis.readJoystickAxis()": the
\* exception of the first read leaves the second unread.
ReadAxes(rawx, rawy) ==
    /\ ~raised
    /\ pin_value' = rawx
    /\ IF ReadRaises(rawx, deadbandCutoff, weight)
       THEN /\ raised' = TRUE
            /\ UNCHANGED <<dx, dy, pin_value_y>>
       ELSE /\ dx' = readJoystickAxis(rawx, outputScale, deadbandCutoff,
                                      weight)
            /\ pin_value_y' = rawy
            /\ IF ReadRaises(rawy, deadbandCutoff, weight)
               THEN raised' = TRUE /\ dy' = dy
               ELSE /\ raised' = FALSE
                    /\ dy' = readJoystickAxis(rawy, outputScale,
                                              deadbandCutoff, weight)
    /\ UNCHANGED <<state, timer, last_mouse, last_mouse_wheel, dotstar_led,
                   up_pressed, down_pressed, left_pressed, right_pressed,
                   mc_mode, mc_flyingdown_req, mc_sprinting_req,
                   mc_crouching_req, mc_utility_req, value, fell, rose,
                   now, keysDown, buttonsDown, sent, absent,
                   deinited, reloaded, outputScale, deadbandCutoff, weight,
                   h_from, h_entered, h_fromEntered, h_hold, h_moving,
                   h_moveAt, h_moveGap, h_wheelAt, h_wheelGap>>

ReadAxis == \E rawx \in RawSamples : \E rawy \in Companions(rawx) :
    ReadAxes(rawx, rawy)

SpecAxis == InitAxis /\ [][ReadAxis]_vars

(***************************************************************************)
(* SpecSweep: the two axes of the default construction while the stick is  *)
(* swept over the whole range: the x axis reads 0, 1, 2, ... up to 65535   *)
(* and the y axis reads the mirror image of the x axis' sample about the   *)
(* centre, or the next sample.                                             *)
(***************************************************************************)
ReadSweep ==
    /\ pin_value < RAW_MAX
    /\ \E rawy \in {2 * MID_SCALE - (pin_value + 1), pin_value + 2}
                    \cap (0..RAW_MAX) :
          ReadAxes(pin_value + 1, rawy)

\* The default construction, or an outputScale of 127 with a
\* deadbandCutoff of 0.5 and a weight of 1.
InitSweep == InitWith({}) \/ InitScaled({}, 127, 5, 10)

SpecSweep == InitSweep /\ [][ReadSweep]_vars

(***************************************************************************)
(* SpecLatch: the arrow keys.  The joystick button is held until the       *)
(* machine is in KEYBOARD; in the keyboard states the joystick button and  *)
(* the signs of both deltas vary freely.                                   *)
(***************************************************************************)
MaxTimeLatch == 4000

TickLatch ==
    /\ now < MaxTimeLatch
    /\ CASE ~Armed ->
              Tick({250}, {{}}, {0}, {0})
         [] state \in {JOYSTICK, JWAITING} ->
              Tick({250}, {{"z"}}, {0}, {0})
         [] OTHER ->
              Tick({250}, SUBSET {"z"}, {-1, 0, 1}, {-1, 0, 1})

SpecLatch == Init /\ [][TickLatch]_vars

(***************************************************************************)
(* SpecHandoff: code.py.  The stick at rest; once armed the joystick       *)
(* button, DPad-left and DPad-right vary freely.                           *)
(***************************************************************************)
MaxTimeHandoff == 2750

TickHandoff ==
    /\ now < MaxTimeHandoff
    /\ \E step \in Steps,
          P \in IF Armed THEN SUBSET {"z", "left", "right"} ELSE {{}} :
          \E s \in {ProcessHandoff(Self, LevelsOf(P), now + step, 0, 0)} :
              Outcome(s, LevelsOf(P), now + step, 0, 0)

SpecHandoff == InitHandoff /\ [][TickHandoff]_vars

(***************************************************************************)
(* SpecBasic: the controller of piper_command_center.py.  Once armed the   *)
(* joystick button and the bottom auxiliary button vary freely, DPad-left  *)
(* in the keyboard states and the x axis in KEYBOARD.                      *)
(***************************************************************************)
MaxTimeBasic == 5500

BasicPresses ==
    IF ~Armed THEN {{}}
    ELSE IF state \in {KEYBOARD, KWAITING}
         THEN SUBSET {"z", "bottom", "left"}
         ELSE SUBSET {"z", "bottom"}

TickBasic ==
    /\ now < MaxTimeBasic
    /\ \E step \in Steps, P \in BasicPresses,
          ddx \in IF state = KEYBOARD THEN {0, 1} ELSE {0} :
          \E s \in {ProcessBasic(Self, LevelsOf(P), now + step, ddx, 0)} :
              Outcome(s, LevelsOf(P), now + step, ddx, 0)

SpecBasic == Init /\ [][TickBasic]_vars

(***************************************************************************)
(* LiveCentre: the controller of piper_command_center.py from power-on     *)
(* with both AnalogIn values at mid-scale on every tick and no button      *)
(* pressed.  "while True: pcc.process()" never stops calling process() and *)
(* time.monotonic() advances, hence the weak fairness of the tick.         *)
(***************************************************************************)
MaxTimeCentre == 2000

CentreSteps == {0, 125, 250}

TickCentre ==
    /\ now < MaxTimeCentre
    /\ \E step \in CentreSteps,
          ddx \in {readJoystickAxis(MID_SCALE, outputScale, deadbandCutoff,
                                   weight)},
          ddy \in {readJoystickAxis(MID_SCALE, outputScale, deadbandCutoff,
                                   weight)} :
          \E s \in {ProcessBasic(Self, LevelsOf({}), now + step, ddx, ddy)} :
              OutcomeRead(s, LevelsOf({}), now + step, ddx, ddy,
                          MID_SCALE, MID_SCALE)

LiveCentre == Init /\ [][TickCentre]_vars /\ WF_vars(TickCentre)

(***************************************************************************)
(* SpecTour: two rounds through the personalities with the stick at rest.  *)
(* The joystick button is held from arming, and the modifier too in the    *)
(* keyboard family.  The ticks in MINECRAFT come at one instant with the   *)
(* buttons in one of the TourPresses combinations: none, the modifier      *)
(* alone, with DPad-up or with DPad-down, and the exit chord, which is     *)
(* then kept through MWAITING, 250 ms apart.                               *)
(***************************************************************************)
MaxTimeTour == 8500

TourPresses ==
    {{}, {"bottom"}, {"bottom", "up"}, {"bottom", "down"}, ExitChord}

TickTour ==
    /\ now < MaxTimeTour
    /\ CASE ~Armed ->
              Tick({250}, {{}}, {0}, {0})
         [] state \in {JOYSTICK, JWAITING} ->
              Tick({250}, {{"z"}}, {0}, {0})
         [] state \in {KEYBOARD, KWAITING_TO_J, KWAITING_TO_MC} ->
              Tick({250}, {{"z", "bottom"}}, {0}, {0})
         [] state = MINECRAFT ->
              Tick({0}, TourPresses, {0}, {0})
         [] state = MWAITING ->
              Tick({250}, {ExitChord}, {0}, {0})

SpecTour == Init /\ [][TickTour]_vars

(***************************************************************************)
(* SpecBack: Minecraft mode and the way back into it from MWAITING.  The   *)
(* run reaches MINECRAFT as in SpecTour.  There the ticks come at one      *)
(* instant with the buttons in one of the BackPresses combinations; in     *)
(* MWAITING the ticks are 250 ms apart, the top button and the modifier    *)
(* are free and the exit chord is kept or broken by DPad-right.            *)
(***************************************************************************)
MaxTimeBack == 4750

BackPresses ==
    {{}, {"bottom"}, {"bottom", "up"}, {"top"}, {"middle"},
     ExitChord \cup {"top"}, ExitChord \cup {"bottom"}}

TickBack ==
    /\ now < MaxTimeBack
    /\ CASE ~Armed ->
              Tick({250}, {{}}, {0}, {0})
         [] state \in {JOYSTICK, JWAITING} ->
              Tick({250}, {{"z"}}, {0}, {0})
         [] state \in {KEYBOARD, KWAITING_TO_J, KWAITING_TO_MC} ->
              Tick({250}, {{"z", "bottom"}}, {0}, {0})
         [] state = MINECRAFT ->
              Tick({0}, BackPresses, {0}, {0})
         [] state = MWAITING ->
              Tick({250},
                   {(ExitChord \ R) \cup B :
                        R \in SUBSET {"right"}, B \in SUBSET {"top", "bottom"}},
                   {0}, {0})

SpecBack == Init /\ [][TickBack]_vars

(***************************************************************************)
(* SpecWheel: the wheel in mouse mode.  The stick is at rest.  Once armed  *)
(* the joystick button, DPad-up and DPad-down vary freely and the ticks    *)
(* are 0, 100 or 101 ms apart, on both sides of the wheel's pace.          *)
(***************************************************************************)
MaxTimeWheel == 1300

WheelSteps == {0, 100, 101}

TickWheel ==
    /\ now < MaxTimeWheel
    /\ IF ~Armed
       THEN Tick({250}, {{}}, {0}, {0})
       ELSE Tick(WheelSteps, SUBSET {"z", "up", "down"}, {0}, {0})

SpecWheel == Init /\ [][TickWheel]_vars

(***************************************************************************)
(* SpecLeak: the personalities with keys and buttons held across the mode  *)
(* changes.  Ticks are 250 ms apart.  In mouse mode the joystick button is *)
(* held, with DPad-left free; in the keyboard family the joystick button   *)
(* is held, with the modifier, DPad-up and the x axis free; in Minecraft   *)
(* mode DPad-up, the top button or the exit chord is pressed, and the      *)
(* chord is kept through MWAITING with the top button free.                *)
(***************************************************************************)
MaxTimeLeak == 7000

TickLeak ==
    /\ now < MaxTimeLeak
    /\ CASE ~Armed ->
              Tick({250}, {{}}, {0}, {0})
         [] state \in {JOYSTICK, JWAITING} ->
              Tick({250}, {{"z"}, {"z", "left"}}, {0}, {0})
         [] state \in {KEYBOARD, KWAITING_TO_J, KWAITING_TO_MC} ->
              Tick({250}, {{"z"} \cup B : B \in SUBSET {"bottom", "up"}},
                   {0, 1}, {0})
         [] state = MINECRAFT ->
              Tick({250}, {{"up"}, {"top"}, ExitChord, ExitChord \cup {"top"}},
                   {0}, {0})
         [] state = MWAITING ->
              Tick({250}, {ExitChord, ExitChord \cup {"top"}}, {0}, {0})

SpecLeak == Init /\ [][TickLeak]_vars

(***************************************************************************)
(* LiveHold: the joystick button held for good.  The stick is at rest and  *)
(* no button is pressed until the machine is armed; from the first tick of *)
(* mouse mode on the joystick button is pressed on every tick and nothing  *)
(* else is.  Ticks are 125 or 250 ms apart.  "while True: pcc.process()"   *)
(* never stops calling process() and time.monotonic() advances: every tick *)
(* is a step of HoldClock, and the fairness is that of the clock.          *)
(***************************************************************************)
MaxTimeHold == 7000

HoldSteps == {125, 250}

TickHold ==
    /\ now < MaxTimeHold
    /\ IF ~Armed
       THEN Tick({250}, {{}}, {0}, {0})
       ELSE Tick(HoldSteps, {{"z"}}, {0}, {0})

\* The clock of a tick: it moves on by one of HoldSteps.
HoldClock == now < MaxTimeHold /\ now' \in {now + step : step \in HoldSteps}

LiveHold == Init /\ [][TickHold]_vars /\ WF_now(HoldClock)

(***************************************************************************)
(* SpecDelta: the deltas after arming.  The joystick button is held from   *)
(* arming on.  In mouse mode dx is 0 or 1 and the ticks are 0 or 250 ms    *)
(* apart; elsewhere they are 250 ms apart.  In the keyboard family dx is   *)
(* -1, 0 or 1 and dy is 0 or 1, and the modifier is pressed or not in      *)
(* KEYBOARD and stays so through the confirm state; in MINECRAFT, with dx  *)
(* 0 or 1, no button or the exit chord is pressed, and the chord is kept   *)
(* through MWAITING.  Before arming dx is 0 or 1.                          *)
(***************************************************************************)
MaxTimeDelta == 5750

TickDelta ==
    /\ now < MaxTimeDelta
    /\ CASE ~Armed ->
              Tick({250}, {{}}, {0, 1}, {0})
         [] state \in {JOYSTICK, JWAITING} ->
              Tick(Steps, {{"z"}}, {0, 1}, {0})
         [] state = KEYBOARD ->
              Tick({250}, {{"z"}, {"z", "bottom"}}, {-1, 0, 1}, {0, 1})
         [] state = KWAITING_TO_J ->
              Tick({250}, {{"z"}}, {-1, 0, 1}, {0, 1})
         [] state = KWAITING_TO_MC ->
              Tick({250}, {{"z", "bottom"}}, {-1, 0, 1}, {0, 1})
         [] state = MINECRAFT ->
              Tick({250}, {{}, ExitChord}, {0, 1}, {0})
         [] state = MWAITING ->
              Tick({250}, {ExitChord}, {0, 1}, {0})

SpecDelta == Init /\ [][TickDelta]_vars

(***************************************************************************)
(* Arming (SpecArm).                                                       *)
(***************************************************************************)
Moving == dx # 0 \/ dy # 0

\* C1: a tick that ends in UNWIRED or WAITING makes no call to the HID
\* sink, whatever the deltas and the button levels are.
C1_UnarmedEmitsNothing ==
    state \in {UNWIRED, WAITING} => sent = <<>>

\* A tick that ends in UNWIRED with the stick deflected, the joystick button
\* held and a press edge of DPad-left.
C1_Witness ==
    /\ state = UNWIRED
    /\ h_from = WAITING
    /\ dx = 1
    /\ ~value["z"]
    /\ "left" \in fell

\* C2: MOUSE is entered from the unarmed states only out of WAITING, on a
\* tick with both deltas 0, more than 0.5 s after the tick that entered
\* WAITING, and with both deltas 0 on every tick spent in WAITING.
C2_ArmOnlyAfterStillness ==
    (state = JOYSTICK /\ h_from \in {UNWIRED, WAITING}) =>
        /\ h_from = WAITING
        /\ dx = 0
        /\ dy = 0
        /\ now - h_fromEntered > 500
        /\ h_hold

\* The tick that arms the machine.
C2_Witness ==
    /\ state = JOYSTICK
    /\ h_from = WAITING
    /\ now - h_fromEntered = 750

\* C3: as long as some delta is nonzero on every tick since construction,
\* the state is UNWIRED after every tick.
C3_MovingStaysUnwired ==
    h_moving => state = UNWIRED

\* The stick has been deflected on every tick for more than a second.
C3_Witness ==
    /\ h_moving
    /\ now >= 1250
    /\ state = UNWIRED
    /\ h_from = UNWIRED

\* C4: a tick in WAITING with a nonzero delta moves to UNWIRED, never to
\* MOUSE, also when more than 0.5 s have passed since WAITING was entered;
\* and every entry into WAITING takes a fresh timestamp.
C4_MovementRestartsSettling ==
    /\ (h_from = WAITING /\ Moving) => state = UNWIRED
    /\ (state = WAITING /\ h_from = UNWIRED) => timer = now

\* A movement in WAITING after more than 0.5 s at rest.
C4_Witness ==
    /\ h_from = WAITING
    /\ Moving
    /\ now - h_fromEntered > 500
    /\ state = UNWIRED

(***************************************************************************)
(* Changes of personality (SpecModes).                                     *)
(***************************************************************************)
MouseFamily == {JOYSTICK, JWAITING}
KeyboardFamily == {KEYBOARD, KWAITING_TO_J, KWAITING_TO_MC}
MinecraftFamily == {MINECRAFT, MWAITING}

SameFamily(a, b) ==
    \E F \in {MouseFamily, KeyboardFamily, MinecraftFamily} :
        a \in F /\ b \in F

IsDown(b) == ~value[b]
DpadAllDown == \A b \in DpadButtons : IsDown(b)

\* The last tick left an armed state for another personality.
PersonalityChanged ==
    /\ h_from \notin {UNWIRED, WAITING}
    /\ ~SameFamily(h_from, state)

\* C5: a personality changes only out of its confirm state, more than
\* 1.0 s after that state was entered, with the hold condition true on
\* every tick spent there: MOUSE to KEYBOARD with the joystick button,
\* KEYBOARD to MOUSE with the joystick button and without the modifier,
\* KEYBOARD to MINECRAFT with both, MINECRAFT to MOUSE with the joystick
\* button and the four DPad buttons.  A tick in a confirm state with the
\* hold condition false returns to the base mode.
C5_ChangeOnlyAfterConfirmedHold ==
    /\ PersonalityChanged =>
        /\ now - h_fromEntered > 1000
        /\ h_hold
        /\ \/ h_from = JWAITING /\ state = KEYBOARD /\ IsDown("z")
           \/ h_from = KWAITING_TO_J /\ state = JOYSTICK
                /\ IsDown("z") /\ ~IsDown("bottom")
           \/ h_from = KWAITING_TO_MC /\ state = MINECRAFT
                /\ IsDown("z") /\ IsDown("bottom")
           \/ h_from = MWAITING /\ state = JOYSTICK
                /\ IsDown("z") /\ DpadAllDown
    /\ (h_from = JWAITING /\ ~IsDown("z")) => state = JOYSTICK
    /\ (h_from = KWAITING_TO_J /\ ~(IsDown("z") /\ ~IsDown("bottom")))
            => state = KEYBOARD
    /\ (h_from = KWAITING_TO_MC /\ ~(IsDown("z") /\ IsDown("bottom")))
            => state = KEYBOARD
    /\ (h_from = MWAITING /\ ~(IsDown("z") /\ DpadAllDown))
            => state = MINECRAFT

\* The last change of the tour: Minecraft mode left for mouse mode.
C5_Witness ==
    /\ h_from = MWAITING
    /\ state = JOYSTICK
    /\ now - h_fromEntered > 1000

(***************************************************************************)
(* Leaving mouse mode (SpecMouse).                                         *)
(***************************************************************************)
\* C6: from MOUSE, a joystick button held for more than 1.0 s enters
\* KEYBOARD, and at the end of that tick neither LEFT nor RIGHT is down at
\* the HID sink, whatever the DPad buttons did during the hold.
C6_KeyboardEntryReleasesMouse ==
    /\ (h_from = JWAITING /\ IsDown("z") /\ now - h_fromEntered > 1000)
            => state = KEYBOARD
    /\ (h_from = JWAITING /\ state = KEYBOARD)
            => buttonsDown \cap {"LEFT_BUTTON", "RIGHT_BUTTON"} = {}

\* KEYBOARD entered while DPad-left, pressed earlier in mouse mode, is held.
C6_Witness ==
    /\ h_from = JWAITING
    /\ state = KEYBOARD
    /\ IsDown("left")
    /\ "left" \notin fell
    /\ Call("mouse_release", "LEFT_BUTTON", 0, 0, 0) \in
            {sent[i] : i \in DOMAIN sent}

(***************************************************************************)
(* Leaving and re-entering keyboard mode (SpecKbd).                        *)
(***************************************************************************)
\* C7: at the end of the tick that leaves the keyboard family for MOUSE or
\* for MINECRAFT, none of the keys of keyboard mode is down at the HID sink.
C7_KeyboardExitReleasesKeys ==
    (h_from \in {KWAITING_TO_J, KWAITING_TO_MC}
        /\ state \in {JOYSTICK, MINECRAFT})
            => keysDown \cap KeyboardKeys = {}

\* Keyboard mode left for MINECRAFT with the stick deflected and DPad-up
\* held, so that an arrow key and SPACE were down.
C7_Witness ==
    /\ h_from = KWAITING_TO_MC
    /\ state = MINECRAFT
    /\ dx = -1
    /\ dy = 1
    /\ IsDown("up")
    /\ "up" \notin fell

AnyLatched == up_pressed \/ down_pressed \/ left_pressed \/ right_pressed

\* C9: outside the keyboard family all four latched arrow flags are false.
\* The code refutes it: the confirm-exit timeout releases the keys but keeps
\* the flags.
C9_LatchesClearOutsideKeyboard ==
    state \notin KeyboardFamily => ~AnyLatched

\* C10: whenever KEYBOARD is entered or re-entered on a tick with both
\* deltas 0, no arrow key is down at the HID sink at the end of the tick.
\* The code refutes it: the way back from a confirm-exit state clears the
\* flags without releasing the keys.
C10_KeyboardEntryReleasesArrows ==
    (state = KEYBOARD /\ h_from \in {JWAITING, KWAITING_TO_J, KWAITING_TO_MC}
        /\ dx = 0 /\ dy = 0)
            => keysDown \cap ArrowKeys = {}

\* The number of calls c among the HID calls q.
CountOf(q, c) == Cardinality({i \in DOMAIN q : q[i] = c})

PressOf(k) == Call("key_press", k, 0, 0, 0)
ReleaseOf(k) == Call("key_release", k, 0, 0, 0)

\* C11: between two ticks that both end in the keyboard family, a run of
\* ticks with dx < 0 presses LEFT_ARROW once, on its first tick, and never
\* again while it lasts, and the first tick with dx = 0 after it releases
\* LEFT_ARROW once.  The code refutes it: the way back from a confirm-exit
\* state clears the latch, so that a run in progress presses LEFT_ARROW a
\* second time and a run that ends on that tick is never released.
C11_OneLatchPerRun ==
    [][(state \in KeyboardFamily /\ state' \in KeyboardFamily) =>
          /\ (dx >= 0 /\ dx' < 0) =>
                CountOf(sent', PressOf("LEFT_ARROW")) = 1
          /\ (dx < 0 /\ dx' < 0) =>
                CountOf(sent', PressOf("LEFT_ARROW")) = 0
          /\ (dx < 0 /\ dx' = 0) =>
                CountOf(sent', ReleaseOf("LEFT_ARROW")) = 1]_vars

(***************************************************************************)
(* Leaving Minecraft mode (SpecAux).                                       *)
(***************************************************************************)
\* C8: at the end of the tick that leaves MWAITING for MOUSE, no key and no
\* mouse button that Minecraft mode presses is down at the HID sink, for
\* every sub-mode.
C8_MinecraftExitReleasesAll ==
    (h_from = MWAITING /\ state = JOYSTICK)
        => /\ keysDown \cap MinecraftKeys = {}
           /\ buttonsDown = {}

\* Minecraft mode left from the sprinting sub-mode, which holds CONTROL,
\* with the top button (LEFT mouse button) held.
C8_Witness ==
    /\ h_from = MWAITING
    /\ state = JOYSTICK
    /\ mc_mode = MC_SPRINTING
    /\ IsDown("top")
    /\ "top" \notin fell

(***************************************************************************)
(* Sub-mode requests and their commit (SpecReq).                           *)
(***************************************************************************)
Requests ==
    <<mc_flyingdown_req, mc_sprinting_req, mc_crouching_req, mc_utility_req>>

\* C12: at most one of the four request flags is true; and after a tick in
\* MINECRAFT with the modifier held that carries a request edge, the flags
\* hold exactly one request, whatever they held before: flying-down if the
\* joystick button was pressed, else sprinting for DPad-up, else crouching
\* for DPad-down, else utility for DPad-left.
C12_OneRequestLastWins ==
    /\ Cardinality({i \in 1..4 : Requests[i]}) <= 1
    /\ (state = MINECRAFT /\ IsDown("bottom")) =>
          /\ "z" \in fell => Requests = <<TRUE, FALSE, FALSE, FALSE>>
          /\ ("up" \in fell /\ "z" \notin fell) =>
                Requests = <<FALSE, TRUE, FALSE, FALSE>>
          /\ ("down" \in fell /\ {"z", "up"} \cap fell = {}) =>
                Requests = <<FALSE, FALSE, TRUE, FALSE>>
          /\ ("left" \in fell /\ {"z", "up", "down"} \cap fell = {}) =>
                Requests = <<FALSE, FALSE, FALSE, TRUE>>

\* The modifier is held from an earlier tick, the joystick button, whose
\* press is the flying-down request, is released, and the press edges of
\* DPad-down and DPad-left fall on one tick: crouching alone is recorded.
C12_Witness ==
    /\ state = MINECRAFT
    /\ IsDown("bottom")
    /\ "bottom" \notin fell
    /\ rose = {"z"}
    /\ fell = {"down", "left"}
    /\ Requests = <<FALSE, FALSE, TRUE, FALSE>>

\* The sub-mode a commit selects when the flags are as they are now.
Pending ==
    IF mc_flyingdown_req THEN MC_FLYINGDOWN
    ELSE IF mc_sprinting_req THEN MC_SPRINTING
    ELSE IF mc_crouching_req THEN MC_CROUCHING
    ELSE IF mc_utility_req THEN MC_UTILITY
    ELSE MC_DEFAULT

\* C13 (SpecAux): a tick that ends in MINECRAFT and carries the release
\* edge of the modifier makes the sub-mode that was pending before the tick
\* the active one (DEFAULT when none was pending) and leaves the four
\* request flags false; CONTROL is down after it if the new sub-mode is
\* SPRINTING and LEFT_SHIFT if it is CROUCHING, whatever other edges the
\* tick carries.
C13_ReleaseCommitsRequest ==
    [][(state' = MINECRAFT /\ "bottom" \in rose') =>
          /\ mc_mode' = Pending
          /\ Requests' = <<FALSE, FALSE, FALSE, FALSE>>
          /\ mc_mode' = MC_SPRINTING => "CONTROL" \in keysDown'
          /\ mc_mode' = MC_CROUCHING => "LEFT_SHIFT" \in keysDown']_vars

\* The modifier and DPad-down are released and the joystick button is
\* pressed on one tick: crouching is committed and LEFT_SHIFT is down.
C13_Witness ==
    /\ state = MINECRAFT
    /\ rose = {"bottom", "down"}
    /\ fell = {"z"}
    /\ mc_mode = MC_CROUCHING
    /\ "LEFT_SHIFT" \in keysDown
    /\ PressOf("LEFT_SHIFT") \in {sent[i] : i \in DOMAIN sent}

(***************************************************************************)
(* The joystick button in Minecraft mode (SpecAux).                        *)
(***************************************************************************)
\* The key of the joystick button in the sub-mode that is active now.
JoystickKey == MC_JOYSTICK_Z[mc_mode + 1]

\* C14 as claimed: on every tick that ends in MINECRAFT, a press edge of
\* the joystick button sends a press of the key the table gives for the
\* sub-mode and a release edge sends its release.  The code refutes it: with
\* the modifier held the press is a flying-down request and sends no key.
C14_EveryEdgeSendsKey ==
    state = MINECRAFT =>
        /\ "z" \in fell => CountOf(sent, PressOf(JoystickKey)) = 1
        /\ "z" \in rose => CountOf(sent, ReleaseOf(JoystickKey)) >= 1

\* C14 as amended: the same on every tick that ends in MINECRAFT with the
\* modifier not pressed.  (A release is sent once by the joystick-button
\* handler, and once more by the commit when the tick also carries the
\* release edge of the modifier.)
C14_EdgeSendsKeyUnlessModifier ==
    (state = MINECRAFT /\ ~IsDown("bottom")) =>
        /\ "z" \in fell => CountOf(sent, PressOf(JoystickKey)) = 1
        /\ "z" \in rose => CountOf(sent, ReleaseOf(JoystickKey)) >= 1

\* A press of the joystick button in the UTILITY sub-mode sends F5.
C14_Witness ==
    /\ state = MINECRAFT
    /\ ~IsDown("bottom")
    /\ "z" \in fell
    /\ mc_mode = MC_UTILITY
    /\ sent = <<PressOf("F5")>>

(***************************************************************************)
(* Pacing (SpecPace).                                                      *)
(***************************************************************************)
\* The number of calls of operation op among the HID calls q.
OpCount(q, op) == Cardinality({i \in DOMAIN q : q[i].op = op})

\* C15: a tick sends at most one pointer move and, in the mouse
\* personality, at most one wheel move; two consecutive pointer moves (in
\* MOUSE, MOUSE_CONFIRM_EXIT or AUX_MODE) are more than 5 ms apart and two
\* consecutive wheel moves of the mouse personality more than 100 ms,
\* however close the ticks are.
C15_EmissionsArePaced ==
    /\ OpCount(sent, "move") <= 1
    /\ state \in MouseFamily => OpCount(sent, "wheel") <= 1
    /\ h_moveGap = -1 \/ h_moveGap > 5
    /\ h_wheelGap = -1 \/ h_wheelGap > 100

\* Ticks 1 ms apart: the last pointer move came 6 ms after the one before,
\* and the last wheel move 101 ms after the one before, in MOUSE_CONFIRM_EXIT.
C15_Witness ==
    /\ state = JWAITING
    /\ h_moveGap = 6
    /\ h_wheelGap = 101
    /\ h_wheelAt = now

(***************************************************************************)
(* Absent auxiliary pins (SpecPins).                                       *)
(***************************************************************************)
\* C16: an auxiliary button built with pin None is never pressed and never
\* an error.  After every tick its debouncer state is what it was at
\* construction, its pressed query and both edge queries are false, and no
\* exception has escaped from process(); and the machine goes on as if the
\* button were never pressed: without the modifier the Minecraft states
\* are not entered, without the top button Minecraft mode holds neither
\* LEFT nor Q, without the middle button neither RIGHT nor MIDDLE.
C16_AbsentButtonNeverPressed ==
    /\ ~raised
    /\ \A b \in absent :
          /\ value[b]
          /\ b \notin fell \cup rose
          /\ ~Pressed(Self, b)
          /\ ~PressedEvent(Self, b)
          /\ ~ReleasedEvent(Self, b)
    /\ "bottom" \in absent => state \notin {KWAITING_TO_MC, MINECRAFT, MWAITING}
    /\ (state = MINECRAFT /\ "top" \in absent) =>
          "LEFT_BUTTON" \notin buttonsDown /\ "Q" \notin keysDown
    /\ (state = MINECRAFT /\ "middle" \in absent) =>
          buttonsDown \cap {"RIGHT_BUTTON", "MIDDLE_BUTTON"} = {}

\* Built without the top button: in MINECRAFT the middle button works, with
\* the modifier held it is the MIDDLE mouse button.
C16_Witness ==
    /\ absent = {"top"}
    /\ state = MINECRAFT
    /\ IsDown("bottom")
    /\ IsDown("middle")
    /\ buttonsDown = {"MIDDLE_BUTTON"}

(***************************************************************************)
(* The library's auxiliary buttons (SpecLib).                              *)
(***************************************************************************)
\* C17: no tick of the extended controller of piper_command_center_modes.py
\* raises, whichever auxiliary pins are given.  The code refutes it: the
\* library's PiperMineCraftButtons.update() reads self.top, an attribute
\* that __init__ never assigns, so the first tick raises AttributeError.
C17_NoTickRaises == ~raised

(***************************************************************************)
(* Axis configuration (SpecAxis).                                          *)
(***************************************************************************)
\* C18: an axis with deadbandCutoff >= 1 is rejected at construction, so it
\* is never read, and no read of any axis raises.  The code refutes it: the
\* constructor checks nothing, and with deadbandCutoff = 1 the read of the
\* sample 0 divides by 1 - alpha = 0.
C18_BadCutoffRejected ==
    /\ deadbandCutoff >= 10 => pin_value = -1
    /\ ~raised

(***************************************************************************)
(* Hand-off (SpecHandoff).                                                 *)
(***************************************************************************)
\* C19: in code.py USERCODE is entered only from JWAITING, by a tick with
\* the joystick button pressed on every tick since JWAITING was entered more
\* than 1.0 s before, and with LEFT_BUTTON and RIGHT_BUTTON up at the sink.
\* The tick that runs in USERCODE leaves the state, sends nothing and
\* releases the six resources; nothing is released on any other tick, and
\* no tick follows the release, so nothing is read after it.
C19_HandoffIsTerminal ==
    /\ ~raised
    /\ (state = USERCODE /\ h_from # USERCODE) =>
           /\ h_from = JWAITING
           /\ h_hold
           /\ now - h_fromEntered > HOLD_MS
           /\ buttonsDown \cap {"LEFT_BUTTON", "RIGHT_BUTTON"} = {}
           /\ deinited = {}
           /\ ~reloaded
    /\ h_from = USERCODE =>
           /\ state = USERCODE
           /\ sent = <<>>
           /\ deinited = Resources
           /\ reloaded
    /\ (deinited # {} \/ reloaded) => h_from = USERCODE

\* The run has been handed over with DPad-left held all the way from the
\* mouse personality, where it had LEFT_BUTTON down.
C19_Witness ==
    /\ state = USERCODE
    /\ h_from = USERCODE
    /\ reloaded
    /\ deinited = Resources
    /\ ~value["left"]
    /\ buttonsDown = {}

(***************************************************************************)
(* The controller of the library (SpecBasic).                              *)
(***************************************************************************)
\* C20, as stated: in piper_command_center.py a tick that starts in
\* KWAITING with the joystick button pressed more than 1.0 s after the
\* timer was recorded ends in JOYSTICK, and a tick that starts in KWAITING
\* ends in KWAITING, KEYBOARD or JOYSTICK.
C20_KwaitingReturnsToMouse ==
    [][state = KWAITING =>
          /\ (~value'["z"] /\ now' - timer > HOLD_MS) => state' = JOYSTICK
          /\ state' \in {KWAITING, KEYBOARD, JOYSTICK}]_vars

\* C20, amended: such a tick ends in the controller's _MINECRAFT state, and
\* a tick that starts in KWAITING ends in KWAITING, KEYBOARD or _MINECRAFT.
C20_KwaitingGoesToMinecraft ==
    [][state = KWAITING =>
          /\ (~value'["z"] /\ now' - timer > HOLD_MS)
                 => state' = BASIC_MINECRAFT
          /\ state' \in {KWAITING, KEYBOARD, BASIC_MINECRAFT}]_vars

\* The hold in KWAITING has timed out, with the bottom auxiliary button
\* pressed or not.
C20_Witness ==
    /\ h_from = KWAITING
    /\ state = BASIC_MINECRAFT
    /\ now - h_fromEntered > HOLD_MS
    /\ ~value["z"]

\* The modes of the library's controller: each is a stable state and the
\* state that waits for the hold; the order in which the hold cycles them.
BasicStable == {JOYSTICK, KEYBOARD, BASIC_MINECRAFT}
BasicWaitingOf(st) == st + 1
BasicModeOf(st) == IF st \in BasicStable THEN st ELSE st - 1

BasicNextMode(m) ==
    CASE m = JOYSTICK        -> KEYBOARD
      [] m = KEYBOARD        -> BASIC_MINECRAFT
      [] m = BASIC_MINECRAFT -> JOYSTICK

\* C21: in piper_command_center.py an active mode starts to wait on a tick
\* with the joystick button pressed, recording the clock; while it waits, a
\* tick with the button released returns to the mode, a tick with the button
\* pressed more than 1.0 s after the recorded clock moves to the next mode
\* in the order mouse, keyboard, Minecraft, mouse, and any other tick keeps
\* waiting; nothing else changes the mode.
C21_HoldCyclesModes ==
    [][IF state \in BasicStable
       THEN /\ state' \in {state, BasicWaitingOf(state)}
            /\ (state' # state) => (~value'["z"] /\ timer' = now')
       ELSE Armed =>
            /\ timer' = timer
            /\ state' = IF value'["z"] THEN BasicModeOf(state)
                        ELSE IF now' - timer > HOLD_MS
                             THEN BasicNextMode(BasicModeOf(state))
                             ELSE state]_vars

\* The hold has cycled the three modes and is back in the mouse mode.
C21_Witness ==
    /\ state = JOYSTICK
    /\ h_from = BASIC_MWAITING
    /\ ~value["z"]
    /\ now - timer > HOLD_MS

(***************************************************************************)
(* The documented settling time (SpecArm).                                 *)
(***************************************************************************)
\* C22: the tick that leaves the inactive states UNWIRED and WAITING comes
\* at least one second after WAITING was entered, with both deltas 0 on
\* every tick in between.
C22_ArmOnlyAfterOneSecond ==
    (state = JOYSTICK /\ h_from \in {UNWIRED, WAITING}) =>
        /\ h_hold
        /\ now - h_fromEntered >= 1000

(***************************************************************************)
(* The stick at rest from power-on (LiveCentre).                           *)
(***************************************************************************)
GREEN == <<0, 255, 0>>

\* Every mouse.move(x, y) among the HID calls q has x = 0 and y = 0.
MovesAreZero(q) ==
    \A i \in DOMAIN q : q[i].op = "move" => (q[i].x = 0 /\ q[i].y = 0)

\* C23: with both raw values at mid-scale and no button pressed on every
\* tick, the state is eventually JOYSTICK with the indicator green; and at
\* all times every pointer move sent has x = 0 and y = 0, no key or mouse
\* button is down at the sink, and no tick sends a press.
C23_CentredStickArms ==
    /\ <>(state = JOYSTICK /\ dotstar_led = GREEN)
    /\ [](/\ MovesAreZero(sent)
          /\ keysDown = {}
          /\ buttonsDown = {}
          /\ ~Sends(sent, "key_press")
          /\ ~Sends(sent, "mouse_press"))

\* The armed machine shows green and has just sent a pointer move.
C23_Witness ==
    /\ state = JOYSTICK
    /\ dotstar_led = GREEN
    /\ pin_value = MID_SCALE
    /\ Sends(sent, "move")

(***************************************************************************)
(* The indicator (SpecAux).                                                *)
(***************************************************************************)
BLUE == <<0, 0, 255>>

\* C24, as stated: after every tick that ends in JOYSTICK the indicator is
\* green, in KEYBOARD blue, and in MINECRAFT the colour of the sub-mode the
\* tick ends in, the tick that enters the state included.
C24_IndicatorShowsEndState ==
    /\ state = JOYSTICK => dotstar_led = GREEN
    /\ state = KEYBOARD => dotstar_led = BLUE
    /\ state = MINECRAFT => dotstar_led = McColor(mc_mode)

\* C24, amended: the indicator is set before the transition, by the state
\* the tick starts in: after every tick that starts in JOYSTICK the
\* indicator is green, in KEYBOARD blue, and in MINECRAFT the colour of the
\* sub-mode the tick starts in.
C24_IndicatorShowsStartState ==
    [][/\ state = JOYSTICK => dotstar_led' = GREEN
       /\ state = KEYBOARD => dotstar_led' = BLUE
       /\ state = MINECRAFT => dotstar_led' = McColor(mc_mode)]_vars

\* A tick in MINECRAFT has committed a sub-mode and the indicator still
\* shows the colour of DEFAULT.
C24_Witness ==
    /\ state = MINECRAFT
    /\ h_from = MINECRAFT
    /\ mc_mode # MC_DEFAULT
    /\ dotstar_led = McColor(MC_DEFAULT)

(***************************************************************************)
(* The deadband (SpecAxis).                                                *)
(***************************************************************************)
\* The raw value raw is within the deadband of cutoff C tenths:
\* |raw / 32768 - 1| < C / 10.
WithinCutoff(raw, C) == 10 * Abs(raw - MID_SCALE) < C * MID_SCALE

\* C25: an axis whose last raw value is within the deadband has returned
\* 0, whatever the outputScale and the weight; with the default cutoff 0.1
\* these are the raw values at most 3276 away from 32768.
C25_DeadbandReadsZero ==
    /\ (pin_value >= 0 /\ WithinCutoff(pin_value, deadbandCutoff))
           => dx = 0
    /\ (pin_value_y >= 0 /\ WithinCutoff(pin_value_y, deadbandCutoff))
           => dy = 0
    /\ (pin_value >= 0 /\ deadbandCutoff = DEADBAND_CUTOFF)
           => (WithinCutoff(pin_value, deadbandCutoff)
                  <=> Abs(pin_value - MID_SCALE) <= 3276)
    /\ (deadbandCutoff = DEADBAND_CUTOFF /\ pin_value_y >= 0
           /\ Abs(pin_value_y - MID_SCALE) <= 3276)
           => dy = 0

\* Both axes have read the last sample inside the default deadband, one on
\* each side, with an outputScale of 127 and a weight of 1.
C25_Witness ==
    /\ outputScale = 127
    /\ weight = 10
    /\ deadbandCutoff = DEADBAND_CUTOFF
    /\ pin_value = 36044
    /\ pin_value_y = 29492
    /\ dx = 0
    /\ dy = 0
    /\ ~raised

(***************************************************************************)
(* The shape of the axis function (SpecSweep).                             *)
(***************************************************************************)
\* C26: when the x axis reads 32768 + d and the y axis 32768 - d, for any d
\* from -32767 to 32767, the two results are each other's negation; the
\* result at 32768 is 0.
C26_OddSymmetry ==
    /\ (pin_value >= 1 /\ pin_value_y = 2 * MID_SCALE - pin_value)
           => dy = -dx
    /\ pin_value = MID_SCALE => dx = 0

\* The default axes have read the sample 1 and its mirror image, the top
\* sample.
C26_Witness ==
    /\ pin_value = 1
    /\ pin_value_y = RAW_MAX
    /\ dx = -19
    /\ dy = 19

DefaultAxes ==
    /\ outputScale = OUTPUT_SCALE
    /\ deadbandCutoff = DEADBAND_CUTOFF
    /\ weight = WEIGHT

\* C27: with the default construction the results at 32768 - 3277 and at
\* 32768 + 3277, the first samples outside the deadband, are 0; and when the
\* y axis reads the sample next to the one the x axis reads, the two results
\* differ by at most 1.
C27_NoJumpAtDeadband ==
    DefaultAxes =>
        /\ pin_value \in {MID_SCALE - 3277, MID_SCALE + 3277} => dx = 0
        /\ (pin_value >= 0 /\ pin_value_y = pin_value + 1)
               => Abs(dy - dx) <= 1

\* The default axes have read the last sample inside the deadband and the
\* first one outside.
C27_Witness ==
    /\ DefaultAxes
    /\ pin_value = MID_SCALE - 3277
    /\ pin_value_y = MID_SCALE - 3276
    /\ dx = 0
    /\ dy = 0

(***************************************************************************)
(* The arrow keys (SpecLatch).                                             *)
(***************************************************************************)
\* C28: after every tick that ends in KEYBOARD, KWAITING_TO_J or
\* KWAITING_TO_MC, right_pressed is dx > 0, left_pressed is dx < 0,
\* up_pressed is dy < 0 and down_pressed is dy > 0, for the deltas of that
\* tick; so neither pair of opposite flags is set together.
C28_LatchesFollowSigns ==
    state \in KeyboardFamily =>
        /\ right_pressed = (dx > 0)
        /\ left_pressed = (dx < 0)
        /\ up_pressed = (dy < 0)
        /\ down_pressed = (dy > 0)
        /\ ~(left_pressed /\ right_pressed)
        /\ ~(up_pressed /\ down_pressed)

\* A tick in the keyboard states with the stick up and to the left.
C28_Witness ==
    /\ state \in KeyboardFamily
    /\ dx < 0
    /\ dy < 0
    /\ left_pressed
    /\ up_pressed
    /\ ~right_pressed
    /\ ~down_pressed

\* C29: LEFT_ARROW and RIGHT_ARROW are never down together at the sink, nor
\* UP_ARROW and DOWN_ARROW.  The code refutes it: the return from
\* KWAITING_TO_J to KEYBOARD clears the flags and leaves the keys down, and
\* the handler of the same tick presses the opposite key.
C29_NoOppositeArrows ==
    /\ ~({"LEFT_ARROW", "RIGHT_ARROW"} \subseteq keysDown)
    /\ ~({"UP_ARROW", "DOWN_ARROW"} \subseteq keysDown)

(***************************************************************************)
(* The modifier (SpecReq).                                                 *)
(***************************************************************************)
\* The keys of the DPad and of the joystick button in MINECRAFT.
ModifiedKeys ==
    {"W", "A", "S", "D", "E", "ESCAPE"}
        \cup {MC_JOYSTICK_Z[i] : i \in DOMAIN MC_JOYSTICK_Z}

\* Some call of an operation in ops on a key in K is among the HID calls q.
KeyCalls(q, ops, K) ==
    \E i \in DOMAIN q : q[i].op \in ops /\ q[i].code \in K

\* C30: a tick that starts or ends in MINECRAFT with the bottom button
\* pressed sends no press of W, A, S, D, E, ESCAPE or of a joystick-button
\* key and no wheel move, and leaves the sub-mode as it was; it sends no
\* release of these keys either, except for the releases the state machine
\* makes on the way in from KWAITING_TO_MC.
C30_ModifierSilencesKeys ==
    [][((state = MINECRAFT \/ state' = MINECRAFT) /\ ~value'["bottom"]) =>
          /\ ~KeyCalls(sent', {"key_press"}, ModifiedKeys)
          /\ ~Sends(sent', "wheel")
          /\ state # KWAITING_TO_MC
                 => ~KeyCalls(sent', {"key_release"}, ModifiedKeys)
          /\ mc_mode' = mc_mode]_vars

\* In the UTILITY sub-mode, with the modifier pressed, DPad-up has just been
\* pressed: sprinting is requested and no wheel move is sent.
C30_Witness ==
    /\ state = MINECRAFT
    /\ h_from = MINECRAFT
    /\ mc_mode = MC_UTILITY
    /\ ~value["bottom"]
    /\ "up" \in fell
    /\ mc_sprinting_req
    /\ ~Sends(sent, "wheel")

(***************************************************************************)
(* The sub-mode across the personalities (SpecTour).                       *)
(***************************************************************************)
\* C31: the sub-mode mc_mode changes only on a tick that ends in MINECRAFT
\* and on which the modifier (the bottom button) has just been released;
\* every other tick, in whatever state, leaves mc_mode as it was, the ticks
\* that set a pending request and the ticks that leave and enter MINECRAFT
\* included.
C31_SubModeChangesOnlyOnRelease ==
    [][mc_mode' # mc_mode => state' = MINECRAFT /\ "bottom" \in rose']_vars

\* MINECRAFT has been entered from the keyboard family with the sub-mode
\* SPRINTING, which only a commit of an earlier stay in MINECRAFT can have
\* set.
C31_Witness ==
    /\ state = MINECRAFT
    /\ h_from = KWAITING_TO_MC
    /\ mc_mode = MC_SPRINTING
    /\ ~value["bottom"]

(***************************************************************************)
(* The wheel in mouse mode (SpecWheel).                                    *)
(***************************************************************************)
\* The wheel step that the DPad levels of the last tick ask for.
WheelOfDpad ==
    IF IsDown("up") THEN -1 ELSE IF IsDown("down") THEN 1 ELSE 0

\* C32: every wheel move sent by a tick that ends in JOYSTICK or JWAITING
\* carries -1 if DPad-up is pressed on that tick (DPad-down pressed or not),
\* +1 if only DPad-down is pressed and 0 if neither is pressed.
C32_WheelFollowsDpad ==
    state \in {JOYSTICK, JWAITING} =>
        \A i \in DOMAIN sent :
            sent[i].op = "wheel" => sent[i].wheel = WheelOfDpad

\* In JWAITING, with DPad-up and DPad-down both pressed, a wheel move of -1
\* has been sent.
C32_Witness ==
    /\ state = JWAITING
    /\ IsDown("up")
    /\ IsDown("down")
    /\ \E i \in DOMAIN sent : sent[i].op = "wheel" /\ sent[i].wheel = -1

(***************************************************************************)
(* The arrow keys and their latches (SpecLatch).                           *)
(***************************************************************************)
\* C33: at the end of every tick that ends in KEYBOARD, KWAITING_TO_J or
\* KWAITING_TO_MC each arrow key is down at the HID sink exactly if its
\* latched flag is true.  The code refutes it: a tap of the joystick button
\* clears the flags on the way back to KEYBOARD and leaves the keys down.
C33_ArrowsMatchLatches ==
    state \in KeyboardFamily =>
        /\ ("UP_ARROW" \in keysDown) <=> up_pressed
        /\ ("DOWN_ARROW" \in keysDown) <=> down_pressed
        /\ ("LEFT_ARROW" \in keysDown) <=> left_pressed
        /\ ("RIGHT_ARROW" \in keysDown) <=> right_pressed

(***************************************************************************)
(* Minecraft mode and the way back into it from MWAITING (SpecBack).       *)
(***************************************************************************)
\* C34: at the end of every tick in MINECRAFT on which the modifier is not
\* pressed, LEFT_BUTTON is down at the HID sink only if the top button is
\* pressed and RIGHT_BUTTON only if the middle button is pressed.  The code
\* refutes it: no handler runs in MWAITING, so the release edge of a button
\* let go there is never seen.
C34_MouseButtonsFollowAux ==
    (state = MINECRAFT /\ ~IsDown("bottom")) =>
        /\ "LEFT_BUTTON" \in buttonsDown => IsDown("top")
        /\ "RIGHT_BUTTON" \in buttonsDown => IsDown("middle")

\* C35: at the end of every tick in MINECRAFT on which the modifier is not
\* pressed, the four pending request flags are false.  The code refutes it:
\* a modifier let go in MWAITING commits nothing, and the request stays
\* pending.
C35_NoRequestWithoutModifier ==
    (state = MINECRAFT /\ ~IsDown("bottom")) =>
        /\ ~mc_flyingdown_req
        /\ ~mc_sprinting_req
        /\ ~mc_crouching_req
        /\ ~mc_utility_req

(***************************************************************************)
(* The sub-mode's modifier key (SpecTour).                                 *)
(***************************************************************************)
\* C36: at the end of every tick in MINECRAFT, CONTROL is down at the HID
\* sink if the sub-mode is SPRINTING and LEFT_SHIFT is down if it is
\* CROUCHING.  The code refutes it: leaving Minecraft mode releases both
\* keys and keeps the sub-mode, and coming back presses nothing.
C36_SubModeKeyIsDown ==
    state = MINECRAFT =>
        /\ mc_mode = MC_SPRINTING => "CONTROL" \in keysDown
        /\ mc_mode = MC_CROUCHING => "LEFT_SHIFT" \in keysDown

(***************************************************************************)
(* No leak across the personalities (SpecLeak).                            *)
(***************************************************************************)
\* C37: at the end of every tick that ends in JOYSTICK or JWAITING no
\* keyboard key is down at the HID sink, and at the end of every tick that
\* ends in KEYBOARD, KWAITING_TO_J or KWAITING_TO_MC no mouse button is
\* down.
C37_NoLeakAcrossPersonalities ==
    /\ state \in MouseFamily => keysDown = {}
    /\ state \in KeyboardFamily => buttonsDown = {}

\* Mouse mode has been entered from KWAITING_TO_J with DPad-up, pressed in
\* the keyboard family, and the stick still held; what the tick sent begins
\* with the eight releases of the keyboard keys, and no key is down.
C37_Witness ==
    /\ state = JOYSTICK
    /\ h_from = KWAITING_TO_J
    /\ IsDown("up")
    /\ "up" \notin fell
    /\ dx = 1
    /\ Len(sent) >= 8
    /\ sent[4] = ReleaseOf("RIGHT_ARROW")
    /\ sent[5] = ReleaseOf("SPACE")
    /\ keysDown = {}

(***************************************************************************)
(* The joystick button held for good (LiveHold).                           *)
(***************************************************************************)
\* The longest time from the tick that enters a personality to the tick
\* that enters the next one: one tick to the confirm state, then the first
\* tick more than HOLD_MS later.
HoldRound == HOLD_MS + 2 * 250

\* C38: with the joystick button pressed on every tick and the modifier
\* released, the armed machine only goes JOYSTICK, JWAITING, KEYBOARD,
\* KWAITING_TO_J, JOYSTICK and so on, the confirm states being entered on
\* the level of the button with no press edge; a personality is entered
\* more than HOLD_MS after its confirm state was; and as long as the clock
\* of the model leaves room for one more round, JOYSTICK leads to KEYBOARD
\* and KEYBOARD leads to JOYSTICK.
C38_HeldButtonAlternates ==
    /\ [][(Armed /\ state' # state) =>
            /\ <<state, state'>> \in {<<JOYSTICK, JWAITING>>,
                                      <<JWAITING, KEYBOARD>>,
                                      <<KEYBOARD, KWAITING_TO_J>>,
                                      <<KWAITING_TO_J, JOYSTICK>>}
            /\ state' \in {JOYSTICK, KEYBOARD} => now' - timer' > HOLD_MS]_vars
    /\ (state = JOYSTICK /\ now + HoldRound <= MaxTimeHold)
           ~> (state = KEYBOARD)
    /\ (state = KEYBOARD /\ now + HoldRound <= MaxTimeHold)
           ~> (state = JOYSTICK)

\* The second round: KWAITING_TO_J has been entered from KEYBOARD for the
\* second time, the joystick button pressed since mouse mode began and no
\* press edge on this tick.
C38_Witness ==
    /\ state = KWAITING_TO_J
    /\ h_from = KEYBOARD
    /\ IsDown("z")
    /\ "z" \notin fell
    /\ now > 5000

(***************************************************************************)
(* The deltas after arming (SpecDelta).                                    *)
(***************************************************************************)
PointerStates == {JOYSTICK, JWAITING, MINECRAFT}

\* The HID calls q hold a pointer move of x and y.
MoveSent(q, x, y) == \E i \in DOMAIN q : q[i] = Call("move", "NONE", x, y, 0)

\* The arrow keys of the signs of x and y are among the keys K.
ArrowsOf(x, y, K) ==
    /\ x > 0 => "RIGHT_ARROW" \in K
    /\ x < 0 => "LEFT_ARROW" \in K
    /\ y < 0 => "UP_ARROW" \in K
    /\ y > 0 => "DOWN_ARROW" \in K

Latched(flagAfter, flagBefore, k) ==
    flagAfter /\ (flagBefore \/ PressOf(k) \in {sent'[i] : i \in DOMAIN sent'})

AuxKeys == MinecraftKeys \ {"SPACE"}

\* C40: in the extended controller built with mc_bottom_pin None no tick
\* ends in KWAITING_TO_MC, MINECRAFT or MWAITING; a tick that starts in
\* KEYBOARD with the joystick button pressed ends in KWAITING_TO_J, and a
\* tick that finds the button still pressed there more than HOLD_MS later
\* ends in JOYSTICK; and no tick presses W, A, S, D, Q, E, ESCAPE, F5,
\* CONTROL, LEFT_SHIFT or the MIDDLE mouse button, none of which is ever
\* down at the HID sink.
C40_NoAuxWithoutModifier ==
    []["bottom" \in absent =>
          /\ state' \notin {KWAITING_TO_MC, MINECRAFT, MWAITING}
          /\ (state = KEYBOARD /\ ~value'["z"]) => state' = KWAITING_TO_J
          /\ (state = KWAITING_TO_J /\ ~value'["z"]
                  /\ now' - timer > HOLD_MS) => state' = JOYSTICK
          /\ ~KeyCalls(sent', {"key_press"}, AuxKeys)
          /\ ~KeyCalls(sent', {"mouse_press"}, {"MIDDLE_BUTTON"})
          /\ keysDown' \cap AuxKeys = {}
          /\ "MIDDLE_BUTTON" \notin buttonsDown']_vars

\* Built without the modifier, the machine has gone from KEYBOARD through
\* KWAITING_TO_J to JOYSTICK.
C40_Witness ==
    /\ "bottom" \in absent
    /\ state = JOYSTICK
    /\ h_from = KWAITING_TO_J

====
